---- MODULE Spec2Model ----
(***************************************************************************)
(* A model of calc.py: the lexer, the reference-resolving validator, the   *)
(* postfix compiler, the stack evaluator, the entity classes (Equation,    *)
(* Variable, Parameter, Function) and the Session API.                     *)
(*                                                                         *)
(* Conventions.                                                            *)
(*  - A Python string is a sequence of one-character strings.              *)
(*  - A Python number is an exact rational <<n, d>> with d > 0 in lowest   *)
(*    terms; int and float are not told apart (Python's == does not        *)
(*    either) and float rounding is not modelled.                          *)
(*  - A Python object with identity (Equation, Variable, Parameter,        *)
(*    Function) is a cell of the heap; its identity is its index.          *)
(*  - A function that can raise returns a record whose field err is the    *)
(*    name of the exception class, or "" when it returns normally.         *)
(*  - A Python list that is mutated in place through an alias (the         *)
(*    call_stack) is returned, updated, next to the result.                *)
(***************************************************************************)
EXTENDS Integers, Sequences, FiniteSets, TLC

(***************************************************************************)
(* Constants of calc.py                                                    *)
(***************************************************************************)
_ALPHA_BLOB == {"a","b","c","d","e","f","g","h","i","j","k","l","m","n","o","p","q","r","s","t","u","v","w","x","y","z","A","B","C","D","E","F","G","H","I","J","K","L","M","N","O","P","Q","R","S","T","U","V","W","X","Y","Z","_"}

Digits == {"0","1","2","3","4","5","6","7","8","9"}

Whitespace == {" "}

\* The backquote character, which a TLA+ string cannot hold.
Backquote == "BACKQUOTE"

_LINE_EQUATION == 0
_LINE_FUNCTION == 1
_LINE_VARIABLE == 2

_FUNCTION_CUSTOM == 0
_FUNCTION_BUILTIN == 1
_FUNCTION_EXTERNAL == 2
_VARIABLE_CUSTOM == 10
_VARIABLE_BUILTIN == 11
_VARIABLE_EXTERNAL == 12

_FUNCTION_PREFIX == "f"
_PARAMETER_PREFIX == "p"
_VARIABLE_PREFIX == "v"

_NEGATION_DISABLER == {")", _FUNCTION_PREFIX, _PARAMETER_PREFIX, _VARIABLE_PREFIX}
_FUNCTION_DELIMITER == ","
_NEGATION_MULTIPLIER == "*"
_PURE_OPERATORS == {"^", "*", "/", "\\", "%", "+", "-", "<", ">", _NEGATION_MULTIPLIER}
_OPERATORS == _PURE_OPERATORS \cup {"(", ")"}
_ALLOWED_TOKENS == _OPERATORS \cup {_FUNCTION_DELIMITER}

\* The dict literal of calc.py lines 73-86, entry by entry in source order.
\* Its first key is _NEGATION_MULTIPLIER, which is the string "*", and "*"
\* is a key again two entries later.
PrecedenceEntries ==
    << <<_NEGATION_MULTIPLIER, 100>>, <<"^", 9>>, <<"*", 8>>, <<"/", 8>>, <<"\\", 8>>, <<"%", 8>>,
       <<"+", 6>>, <<"-", 6>>, <<"<", 1>>, <<">", 1>>, <<"(", -1>>, <<")", 0>> >>

\* A Python dict literal keeps, for a key that is written twice, the value
\* of the last entry that has the key.
DictLiteral(entries, key) ==
    LET idx == {i \in 1..Len(entries) : entries[i][1] = key}
        last == CHOOSE i \in idx : \A j \in idx : j <= i
    IN  entries[last][2]

_OPERATOR_PRECEDENCE(op) == DictLiteral(PrecedenceEntries, op)

(***************************************************************************)
(* Numbers                                                                 *)
(***************************************************************************)
Abs(n) == IF n < 0 THEN -n ELSE n

RECURSIVE GCD(_, _)
GCD(a, b) == IF b = 0 THEN a ELSE GCD(b, a % b)

\* The rational n/d (d # 0) in lowest terms with a positive denominator.
Rat(n, d) ==
    LET g == GCD(Abs(n), Abs(d))
        s == IF d < 0 THEN -1 ELSE 1
    IN  <<(s * n) \div g, (s * d) \div g>>

Whole(n) == <<n, 1>>
IsZero(x) == x[1] = 0
IsInteger(x) == x[2] = 1
Less(x, y) == x[1] * y[2] < y[1] * x[2]
Add(x, y) == Rat(x[1] * y[2] + y[1] * x[2], x[2] * y[2])
Sub(x, y) == Rat(x[1] * y[2] - y[1] * x[2], x[2] * y[2])
Mul(x, y) == Rat(x[1] * y[1], x[2] * y[2])
\* x / float(y), y # 0
TrueDiv(x, y) == Rat(x[1] * y[2], x[2] * y[1])
\* floor(x / y), y # 0: Python's //
Floor(x) == x[1] \div x[2]
FloorDiv(x, y) == Whole(Floor(TrueDiv(x, y)))
\* Python's %: the result has the sign of the divisor
Mod(x, y) == Sub(x, Mul(y, FloorDiv(x, y)))
Min(x, y) == IF Less(y, x) THEN y ELSE x
Max(x, y) == IF Less(x, y) THEN y ELSE x

\* The magnitude above which the model stops computing a power: Python's
\* integers are unbounded, the model checker's are not.
MaxMagnitude == 1000000

TooLarge(p) == Abs(p[1]) > MaxMagnitude \/ p[2] > MaxMagnitude

\* p * x, unless p is too large already.
TimesUnlessTooLarge(p, x) == IF TooLarge(p) THEN p ELSE Mul(x, p)

RECURSIVE IntPow(_, _)
\* x to the power k >= 0, or a number that is too large when the power is.
IntPow(x, k) == IF k = 0 THEN Whole(1) ELSE TimesUnlessTooLarge(IntPow(x, k - 1), x)

\* x ** y. A zero base with a negative exponent raises Python's own
\* ZeroDivisionError; a power that is not rational, or too large for the
\* model, is the outcome "Unmodelled".
Pow(x, y) ==
    IF ~IsInteger(y) THEN [err |-> "Unmodelled", val |-> Whole(0)]
    ELSE IF y[1] < 0 /\ IsZero(x) THEN [err |-> "ZeroDivisionError", val |-> Whole(0)]
    ELSE IF Abs(y[1]) > 20 \/ Abs(x[1]) > 100 \/ x[2] > 100 THEN [err |-> "Unmodelled", val |-> Whole(0)]
    ELSE IF TooLarge(IntPow(x, Abs(y[1]))) THEN [err |-> "Unmodelled", val |-> Whole(0)]
    ELSE IF y[1] < 0 THEN [err |-> "", val |-> TrueDiv(Whole(1), IntPow(x, Abs(y[1])))]
    ELSE [err |-> "", val |-> IntPow(x, Abs(y[1]))]

(***************************************************************************)
(* Tokens                                                                  *)
(***************************************************************************)
\* A Python number in a token list.
NumTok(v) == [t |-> "num", s |-> <<>>, v |-> v, k |-> -1, e |-> 0, a |-> <<>>]
\* A Python string in a token list.
StrTok(s) == [t |-> "str", s |-> s, v |-> <<0, 1>>, k |-> -1, e |-> 0, a |-> <<>>]
\* A Python tuple in a compiled token list: (kind, object[, arguments]).
\* e is the identity of a heap object, v a number, s the name of a builtin.
RefTok(k, e, v, s, a) == [t |-> "ref", s |-> s, v |-> v, k |-> k, e |-> e, a |-> a]

IsStr(tok) == tok.t = "str"
\* token == '<one character>'
Is(tok, c) == tok.t = "str" /\ tok.s = <<c>>
\* token in <a set of one-character strings>
IsIn(tok, S) == tok.t = "str" /\ Len(tok.s) = 1 /\ tok.s[1] \in S

(***************************************************************************)
(* Strings                                                                 *)
(***************************************************************************)
RECURSIVE Span(_, _, _)
\* The length of the longest run of characters of S in line that starts at
\* position i.
Span(line, i, S) == IF i <= Len(line) /\ line[i] \in S THEN 1 + Span(line, i + 1, S) ELSE 0

Drop(line, k) == SubSeq(line, k + 1, Len(line))
Take(line, k) == SubSeq(line, 1, k)

RECURSIVE TrailingSpan(_, _)
TrailingSpan(line, S) == IF line # <<>> /\ line[Len(line)] \in S THEN 1 + TrailingSpan(Take(line, Len(line) - 1), S) ELSE 0

lstrip(line) == Drop(line, Span(line, 1, Whitespace))
rstrip(line) == Take(line, Len(line) - TrailingSpan(line, Whitespace))
strip(line) == rstrip(lstrip(line))

RECURSIVE split(_, _)
\* str.split(sep) for a one-character separator
split(line, sep) ==
    LET k == Span(line, 1, {c \in {line[i] : i \in 1..Len(line)} : c # sep})
    IN  IF k = Len(line) THEN <<line>> ELSE <<Take(line, k)>> \o split(Drop(line, k + 1), sep)

DigitValue(c) ==
    CASE c = "0" -> 0 [] c = "1" -> 1 [] c = "2" -> 2 [] c = "3" -> 3 [] c = "4" -> 4
      [] c = "5" -> 5 [] c = "6" -> 6 [] c = "7" -> 7 [] c = "8" -> 8 [] c = "9" -> 9

RECURSIVE DecimalValue(_)
DecimalValue(digits) ==
    IF digits = <<>> THEN 0
    ELSE 10 * DecimalValue(Take(digits, Len(digits) - 1)) + DigitValue(digits[Len(digits)])

RECURSIVE TenTo(_)
TenTo(k) == IF k = 0 THEN 1 ELSE 10 * TenTo(k - 1)

\* int(number) when the text has no decimal point, float(number) otherwise
ParseNumber(number) ==
    LET k == Span(number, 1, Digits)
    IN  IF k = Len(number) THEN Whole(DecimalValue(number))
        ELSE Rat(DecimalValue(Take(number, k) \o Drop(number, k + 1)), TenTo(Len(number) - k - 1))

(***************************************************************************)
(* The regular expressions: each Match operator gives the length of the    *)
(* match at the start of line, 0 when there is none.                       *)
(***************************************************************************)
\* _NUMERIC_REGEXP  ^(\d+(?:\.\d+)?|\.\d+)
MatchNumeric(line) ==
    LET Fraction(i) == IF i <= Len(line) /\ line[i] = "." /\ Span(line, i + 1, Digits) > 0
                       THEN 1 + Span(line, i + 1, Digits) ELSE 0
        k == Span(line, 1, Digits)
    IN  IF k > 0 THEN k + Fraction(k + 1) ELSE Fraction(1)

\* _FUNCTION_REGEXP  ^([A-Za-z_]+)\(
MatchFunction(line) ==
    LET k == Span(line, 1, _ALPHA_BLOB)
    IN  IF k > 0 /\ k < Len(line) /\ line[k + 1] = "(" THEN k + 1 ELSE 0

\* _VARIABLE_REGEXP  ^([A-Za-z_]+)
MatchVariable(line) == Span(line, 1, _ALPHA_BLOB)

\* _QUOTED_VARIABLE_REGEXP: a backquote, one or more characters (as few as
\* possible), a backquote
MatchQuoted(line) ==
    LET ends == {j \in 3..Len(line) : line[j] = Backquote}
    IN  IF line # <<>> /\ line[1] = Backquote /\ ends # {} THEN CHOOSE j \in ends : \A i \in ends : j <= i ELSE 0

RECURSIVE MatchParameterList(_, _)
\* (?:[A-Za-z_]+,\s*)*[A-Za-z_]+ from position i: the position after the
\* match, 0 when there is none.
MatchParameterList(line, i) ==
    LET n == Span(line, i, _ALPHA_BLOB)
        j == i + n
        afterComma == j + 1 + Span(line, j + 1, Whitespace)
        more == MatchParameterList(line, afterComma)
    IN  IF n = 0 THEN 0
        ELSE IF j <= Len(line) /\ line[j] = "," /\ more > 0 THEN more
        ELSE j

\* \s*=\s*(.+)$ from position i: the text of the group, <<>> when there is
\* no match. The group takes what follows the whitespace after "="; when
\* that is nothing, the match backtracks and the group is the last
\* whitespace character.
MatchAssignment(line, i) ==
    LET j == i + Span(line, i, Whitespace)
        rest == Drop(line, j)
    IN  IF j > Len(line) \/ line[j] # "=" \/ rest = <<>> THEN <<>>
        ELSE IF lstrip(rest) # <<>> THEN lstrip(rest)
        ELSE <<rest[Len(rest)]>>

\* _LINE_FUNCTION_REGEXP
\*   ^(A+)\(\s*(?:((?:A+,\s*)*A+)\s*)?\)\s*=\s*(.+)$
\* The groups: name, parameters (<<>> stands for None) and body; ok says
\* whether the line matches.
MatchLineFunction(line) ==
    LET k == Span(line, 1, _ALPHA_BLOB)
        i == k + 2 + Span(line, k + 2, Whitespace)
        pe == MatchParameterList(line, i)
        close == IF pe > 0 THEN pe + Span(line, pe, Whitespace) ELSE i
        body == MatchAssignment(line, close + 1)
        ok == /\ k > 0 /\ k < Len(line) /\ line[k + 1] = "("
              /\ close <= Len(line) /\ line[close] = ")"
              /\ body # <<>>
    IN  [ok |-> ok, name |-> Take(line, k),
         parameters |-> IF pe > 0 THEN SubSeq(line, i, pe - 1) ELSE <<>>,
         body |-> body]

\* _LINE_VARIABLE_REGEXP  ^(A+)\s*=\s*(.+)$
MatchLineVariable(line) ==
    LET k == Span(line, 1, _ALPHA_BLOB)
        body == MatchAssignment(line, k + 1)
    IN  [ok |-> k > 0 /\ body # <<>>, name |-> Take(line, k), body |-> body]

(***************************************************************************)
(* The lexer                                                               *)
(***************************************************************************)
RECURSIVE _splitLine(_, _)
_splitLine(line0, raw_line) ==
    LET line == lstrip(line0)
        num == MatchNumeric(line)
        fn == MatchFunction(line)
        var == MatchVariable(line)
        quoted == MatchQuoted(line)
        \* what the pass of the loop appends, and how much of line it consumes
        step ==
            IF num > 0 THEN [err |-> "", toks |-> <<NumTok(ParseNumber(Take(line, num)))>>, n |-> num]
            ELSE IF fn > 0 THEN [err |-> "", toks |-> <<StrTok(<<_FUNCTION_PREFIX, ":">> \o Take(line, fn - 1)), StrTok(<<"(">>)>>, n |-> fn]
            ELSE IF var > 0 THEN [err |-> "", toks |-> <<StrTok(<<_VARIABLE_PREFIX, ":">> \o Take(line, var))>>, n |-> var]
            ELSE IF quoted > 0 THEN [err |-> "", toks |-> <<StrTok(<<_VARIABLE_PREFIX, ":">> \o SubSeq(line, 2, quoted - 1))>>, n |-> quoted]
            ELSE IF line[1] \in _ALLOWED_TOKENS THEN [err |-> "", toks |-> <<StrTok(<<line[1]>>)>>, n |-> 1]
            ELSE [err |-> "IllegalCharacterError", toks |-> <<>>, n |-> 1]
        rest == _splitLine(Drop(line, step.n), raw_line)
    IN  IF line = <<>> THEN [err |-> "", tokens |-> <<>>]
        ELSE IF step.err # "" THEN [err |-> step.err, tokens |-> <<>>]
        ELSE IF rest.err # "" THEN rest
        ELSE [err |-> "", tokens |-> step.toks \o rest.tokens]

\* The tokens of _parseLine for the matches f and v of the two line
\* patterns and the tokens of the body.
ParsedLine(f, v, body) ==
    [err |-> body.err,
     tokens |-> IF body.err # "" THEN <<>>
                ELSE IF f.ok THEN <<StrTok(f.name), StrTok(f.parameters)>> \o body.tokens
                ELSE IF v.ok THEN <<StrTok(v.name)>> \o body.tokens
                ELSE body.tokens,
     line_type |-> IF f.ok THEN _LINE_FUNCTION ELSE IF v.ok THEN _LINE_VARIABLE ELSE _LINE_EQUATION]

\* The text _parseLine hands to _splitLine.
BodyOfLine(raw_line, f, v) == IF f.ok THEN f.body ELSE IF v.ok THEN v.body ELSE raw_line

\* _parseLine after the two line patterns were tried.
SplitBody(raw_line, f, v) == ParsedLine(f, v, _splitLine(BodyOfLine(raw_line, f, v), raw_line))

\* (tokens, line_type). The name and the parameter text of a declaration
\* are the first elements of tokens, as strings.
_parseLine(raw_line) == SplitBody(raw_line, MatchLineFunction(raw_line), MatchLineVariable(raw_line))

(***************************************************************************)
(* The heap: the Equation, Variable, Parameter and Function objects        *)
(***************************************************************************)
\* One object, with the attributes the classes declare. equationNone and
\* computedNone say that _equation and _computed_value are None;
\* parameters is Function._parameters, a list of (name, Parameter).
Object(cls, name, tokens, parameters) ==
    [cls |-> cls, name |-> name, tokens |-> tokens,
     equationNone |-> TRUE, equation |-> <<>>,
     computedNone |-> TRUE, computed_value |-> <<0, 1>>,
     parameters |-> parameters]

\* The identity of the object allocated next.
NewId(heap) == Len(heap) + 1

(***************************************************************************)
(* Dictionaries: the items in insertion order, and what the __missing__    *)
(* hook of the Session's dict classes returns for the keys that are        *)
(* absent (a key it does not list gives None).                             *)
(***************************************************************************)
Dict(items, missing) == [items |-> items, missing |-> missing]

ItemsGet(items, key) ==
    LET idx == {i \in 1..Len(items) : items[i].k = key}
    IN  IF idx = {} THEN [none |-> TRUE, val |-> 0] ELSE [none |-> FALSE, val |-> items[CHOOSE i \in idx : TRUE].v]

\* key in d
DictHas(d, key) == \E i \in 1..Len(d.items) : d.items[i].k = key

\* d[key]: the item, or the result of __missing__, which inserts nothing
DictSubscript(d, key) == IF DictHas(d, key) THEN ItemsGet(d.items, key) ELSE ItemsGet(d.missing, key)

\* A dict that stores what the lookup of a missing key returned, as a
\* defaultdict with a default_factory does.
Subscripted_default(d, key) ==
    IF \E i \in 1..Len(d.items) : d.items[i].k = key THEN d
    ELSE [d EXCEPT !.items = Append(d.items, [k |-> key, v |-> 0])]

\* The dict d after d[key]: __missing__ returns what the handler returned,
\* or None, and stores nothing.
Subscripted(d, key) == d

\* d[key] = val: a key that is present keeps its place in the order
DictSet(d, key, val) ==
    IF DictHas(d, key)
    THEN [d EXCEPT !.items = [i \in 1..Len(d.items) |-> IF d.items[i].k = key THEN [k |-> key, v |-> val] ELSE d.items[i]]]
    ELSE [d EXCEPT !.items = Append(d.items, [k |-> key, v |-> val])]

\* d.pop(key, None)
DictPop(d, key) == [d EXCEPT !.items = SelectSeq(d.items, LAMBDA it : it.k # key)]

\* d.values()
DictValues(d) == [i \in 1..Len(d.items) |-> d.items[i].v]

\* The orders in which a loop may visit the entries of a dict: the order of
\* items() and values() is that of the interpreter's hash table before
\* Python 3.7 and that of insertion from then on; the module runs on both.
Iterations(entries) ==
    {[i \in 1..Len(entries) |-> entries[order[i]]] :
        order \in {o \in [1..Len(entries) -> 1..Len(entries)] : \A i, j \in 1..Len(entries) : i # j => o[i] # o[j]}}

(***************************************************************************)
(* Built-in properties                                                     *)
(***************************************************************************)
\* _VARIABLES, with math.e and math.pi cut to three decimals.
_VARIABLES ==
    << [k |-> <<"e">>, v |-> Rat(2718, 1000)], [k |-> <<"p", "i">>, v |-> Rat(3142, 1000)] >>

\* The keys (arity, name) of _FUNCTIONS that the model covers.
_FUNCTIONS ==
    << [k |-> <<1, <<"a", "b", "s">> >>, v |-> "_abs"],
       [k |-> <<1, <<"c", "e", "i", "l">> >>, v |-> "_ceil"],
       [k |-> <<1, <<"f", "l", "o", "o", "r">> >>, v |-> "_floor"] >>

\* The call of a builtin on the list of its argument values.
CallBuiltin(name, args) ==
    CASE name = "_abs" -> [err |-> "", val |-> IF args[1][1] < 0 THEN Sub(Whole(0), args[1]) ELSE args[1]]
      [] name = "_ceil" -> [err |-> "", val |-> Whole(0 - Floor(Sub(Whole(0), args[1])))]
      [] name = "_floor" -> [err |-> "", val |-> Whole(Floor(args[1]))]

(***************************************************************************)
(* _validateSyntax                                                         *)
(***************************************************************************)
RECURSIVE MatchingParenthesis(_, _, _)
\* The inner loop of _validateSyntax and of _validateExpression_parameters:
\* the position of the ")" that brings depth to 0, scanning from i;
\* 0 when the tokens end first.
MatchingParenthesis(tokens, i, depth) ==
    IF i > Len(tokens) THEN 0
    ELSE IF Is(tokens[i], "(") THEN MatchingParenthesis(tokens, i + 1, depth + 1)
    ELSE IF Is(tokens[i], ")") THEN (IF depth = 1 THEN i ELSE MatchingParenthesis(tokens, i + 1, depth - 1))
    ELSE MatchingParenthesis(tokens, i + 1, depth)

RECURSIVE _validateSyntax(_)
RECURSIVE ValidateSyntaxLoop(_, _, _)
\* The while loop of _validateSyntax from position i: the name of the
\* error raised, "" when there is none.
ValidateSyntaxLoop(tokens, i, expecting_factor) ==
    IF i > Len(tokens) THEN (IF expecting_factor THEN "IncompleteExpressionError" ELSE "")
    ELSE LET token == tokens[i]
             close == MatchingParenthesis(tokens, i + 1, 1)
             inner == _validateSyntax(SubSeq(tokens, i + 1, close - 1))
         IN  IF IsStr(token) THEN
                 IF ~IsIn(token, _OPERATORS) \/ Is(token, ")") THEN "UnexpectedCharacterError"
                 ELSE IF Is(token, "(") THEN
                     IF ~expecting_factor THEN "ConsecutiveFactorError"
                     ELSE IF close = 0 THEN "UnbalancedParenthesesError"
                     ELSE IF inner # "" THEN inner
                     ELSE ValidateSyntaxLoop(tokens, close + 1, ~expecting_factor)
                 ELSE IF expecting_factor THEN "ConsecutiveOperatorError"
                 ELSE ValidateSyntaxLoop(tokens, i + 1, ~expecting_factor)
             ELSE IF ~expecting_factor THEN "ConsecutiveFactorError"
             ELSE ValidateSyntaxLoop(tokens, i + 1, ~expecting_factor)

\* A check that takes an empty token list as it is.
_validateSyntax_strict(tokens) == ValidateSyntaxLoop(tokens, 1, TRUE)

\* An empty token list is checked as the list [0].
_validateSyntax(tokens) ==
    ValidateSyntaxLoop(IF tokens # <<>> THEN tokens ELSE <<NumTok(Whole(0))>>, 1, TRUE)

(***************************************************************************)
(* _convertRPN                                                             *)
(***************************************************************************)
RECURSIVE PopToParenthesis(_, _)
\* The ")" case: pops the stack onto rpn_tokens down to the first "(".
PopToParenthesis(rpn_tokens, stack) ==
    IF stack = <<>> THEN [match_found |-> FALSE, rpn_tokens |-> rpn_tokens, stack |-> stack]
    ELSE LET token == stack[Len(stack)]
             below == Take(stack, Len(stack) - 1)
         IN  IF Is(token, "(") THEN [match_found |-> TRUE, rpn_tokens |-> rpn_tokens, stack |-> below]
             ELSE PopToParenthesis(Append(rpn_tokens, token), below)

\* A pop condition that leaves an operator of equal precedence on the stack.
PopsBefore_strict(i, top) == _OPERATOR_PRECEDENCE(i.s[1]) < _OPERATOR_PRECEDENCE(top.s[1])

\* The comparison that decides whether the operator on top of the stack is
\* popped before operator i is pushed.
PopsBefore(i, top) == _OPERATOR_PRECEDENCE(i.s[1]) <= _OPERATOR_PRECEDENCE(top.s[1])

RECURSIVE PopPrecedence(_, _, _)
\* The operator case: pops while the precedence of i is not above that of
\* the top of the stack.
PopPrecedence(i, rpn_tokens, stack) ==
    IF stack # <<>> /\ PopsBefore(i, stack[Len(stack)])
    THEN PopPrecedence(i, Append(rpn_tokens, stack[Len(stack)]), Take(stack, Len(stack) - 1))
    ELSE [rpn_tokens |-> rpn_tokens, stack |-> stack]

RECURSIVE DrainStack(_, _)
\* The final loop: pops what is left; a "(" left on the stack is an error.
DrainStack(rpn_tokens, stack) ==
    IF stack = <<>> THEN [err |-> "", rpn_tokens |-> rpn_tokens]
    ELSE IF Is(stack[Len(stack)], "(") THEN [err |-> "UnbalancedParenthesesError", rpn_tokens |-> <<>>]
    ELSE DrainStack(Append(rpn_tokens, stack[Len(stack)]), Take(stack, Len(stack) - 1))

RECURSIVE ConvertLoop(_, _, _, _)
ConvertLoop(tokens, n, rpn_tokens, stack) ==
    IF n > Len(tokens) THEN DrainStack(rpn_tokens, stack)
    ELSE LET i == tokens[n]
             closed == PopToParenthesis(rpn_tokens, stack)
             popped == PopPrecedence(i, rpn_tokens, stack)
         IN  IF ~IsIn(i, _OPERATORS) THEN ConvertLoop(tokens, n + 1, Append(rpn_tokens, i), stack)
             ELSE IF Is(i, "(") THEN ConvertLoop(tokens, n + 1, rpn_tokens, Append(stack, i))
             ELSE IF Is(i, ")") THEN
                 IF ~closed.match_found THEN [err |-> "UnbalancedParenthesesError", rpn_tokens |-> <<>>]
                 ELSE ConvertLoop(tokens, n + 1, closed.rpn_tokens, closed.stack)
             ELSE ConvertLoop(tokens, n + 1, popped.rpn_tokens, Append(popped.stack, i))

_convertRPN(tokens) == ConvertLoop(tokens, 1, <<>>, <<>>)

(***************************************************************************)
(* _validateExpression and Equation.compile                                *)
(***************************************************************************)
\* c and x or y read as a conditional expression, x if c else y.
AndOr_conditional(c, x, y) == IF c THEN x ELSE y

\* The Python idiom "c and x or y" on a condition and two integers.
AndOr(c, x, y) == IF c /\ x # 0 THEN x ELSE y

\* A lookup that tries the builtin variables before the namespace of the
\* session and its handler.
_validateExpression_variable_builtin(token, variables) ==
    LET identifier == Drop(token.s, 2)
        variable == DictSubscript(variables, identifier)
        kind == AndOr(DictHas(variables, identifier), _VARIABLE_CUSTOM, _VARIABLE_EXTERNAL)
        builtin == ItemsGet(_VARIABLES, identifier)
    IN  IF ~builtin.none THEN [err |-> "", variables |-> variables, token |-> RefTok(_VARIABLE_BUILTIN, 0, builtin.val, <<>>, <<>>)]
        ELSE IF ~variable.none THEN
            [err |-> "", variables |-> variables,
             token |-> IF kind = _VARIABLE_CUSTOM THEN RefTok(kind, variable.val, <<0, 1>>, <<>>, <<>>)
                       ELSE RefTok(kind, 0, variable.val, <<>>, <<>>)]
        ELSE [err |-> "VariableError", variables |-> variables, token |-> NumTok(<<0, 1>>)]

\* The compiled reference of a variable token.
_validateExpression_variable(token, variables) ==
    LET identifier == Drop(token.s, 2)
        variable == DictSubscript(variables, identifier)
        looked == Subscripted(variables, identifier)
        kind == AndOr(DictHas(looked, identifier), _VARIABLE_CUSTOM, _VARIABLE_EXTERNAL)
        builtin == ItemsGet(_VARIABLES, identifier)
    IN  IF ~variable.none THEN
            [err |-> "", variables |-> looked,
             token |-> IF kind = _VARIABLE_CUSTOM THEN RefTok(kind, variable.val, <<0, 1>>, <<>>, <<>>)
                       ELSE RefTok(kind, 0, variable.val, <<>>, <<>>)]
        ELSE IF ~builtin.none THEN [err |-> "", variables |-> looked, token |-> RefTok(_VARIABLE_BUILTIN, 0, builtin.val, <<>>, <<>>)]
        ELSE [err |-> "VariableError", variables |-> looked, token |-> NumTok(<<0, 1>>)]

RECURSIVE Equation_compile(_, _, _, _)
RECURSIVE _validateExpression(_, _, _, _)
RECURSIVE ValidateExpressionLoop(_, _, _, _)
RECURSIVE ParametersLoop(_, _, _, _)

\* The Equation made for an argument, as compile left it.
CompiledArgument(equation, compiled) ==
    [err |-> compiled.err, heap |-> compiled.heap, equation |-> equation,
     functions |-> compiled.functions, variables |-> compiled.variables]

\* Equation(parameter) followed by equation.compile(functions, variables),
\* for one argument of a call: the new Equation object, compiled.
CompileArgument(heap, parameter, functions, variables) ==
    IF parameter = <<>> THEN [err |-> "TokensError", heap |-> heap, equation |-> 0, functions |-> functions, variables |-> variables]
    ELSE CompiledArgument(NewId(heap), Equation_compile(Append(heap, Object("Equation", <<>>, parameter, <<>>)), NewId(heap), functions, variables))

\* Whether the token ends an argument: the ")" that closes the call when
\* something was collected, or a delimiter of the call itself.
EndsArgument(token, st) ==
    st.depth = 1 /\ \/ Is(token, ")") /\ (st.parameter # <<>> \/ st.parameters # <<>>)
                    \/ Is(token, _FUNCTION_DELIMITER)

\* The step of _validateExpression_parameters at the end of an argument,
\* which was compiled into argument.
ArgumentEnd(tokens, st, argument) ==
    IF Is(Head(tokens), ")") THEN
        [err |-> argument.err, parameters |-> Append(st.parameters, argument.equation), tokens |-> Tail(tokens), heap |-> argument.heap,
         functions |-> argument.functions, variables |-> argument.variables]
    ELSE IF argument.err # "" THEN
        [err |-> argument.err, parameters |-> st.parameters, tokens |-> tokens, heap |-> st.heap,
         functions |-> argument.functions, variables |-> argument.variables]
    ELSE ParametersLoop(Tail(tokens), [st EXCEPT !.parameter = <<>>, !.parameters = Append(st.parameters, argument.equation), !.heap = argument.heap],
                        argument.functions, argument.variables)

\* The while loop of _validateExpression_parameters. st holds the local
\* variables depth, parameter and parameters and the heap; the result adds
\* the tokens that are left.
ParametersLoop(tokens, st, functions, variables) ==
    IF tokens = <<>> THEN
        [err |-> IF st.depth > 0 THEN "UnterminatedFunctionError" ELSE "", parameters |-> st.parameters, tokens |-> tokens, heap |-> st.heap,
         functions |-> functions, variables |-> variables]
    ELSE IF EndsArgument(Head(tokens), st) THEN
        ArgumentEnd(tokens, st, CompileArgument(st.heap, st.parameter, functions, variables))
    ELSE IF Is(Head(tokens), "(") THEN
        ParametersLoop(Tail(tokens), [st EXCEPT !.depth = st.depth + 1, !.parameter = Append(st.parameter, Head(tokens))], functions, variables)
    ELSE IF Is(Head(tokens), ")") THEN
        IF st.depth = 1 THEN
            [err |-> "", parameters |-> st.parameters, tokens |-> Tail(tokens), heap |-> st.heap, functions |-> functions, variables |-> variables]
        ELSE ParametersLoop(Tail(tokens), [st EXCEPT !.depth = st.depth - 1, !.parameter = Append(st.parameter, Head(tokens))], functions, variables)
    ELSE ParametersLoop(Tail(tokens), [st EXCEPT !.parameter = Append(st.parameter, Head(tokens))], functions, variables)

\* tokens starts at the "(" that follows the function token; it is dropped.
_validateExpression_parameters(tokens, functions, variables, heap) ==
    IF tokens = <<>> THEN [err |-> "IndexError", parameters |-> <<>>, tokens |-> tokens, heap |-> heap, functions |-> functions, variables |-> variables]
    ELSE ParametersLoop(Tail(tokens), [depth |-> 1, parameter |-> <<>>, parameters |-> <<>>, heap |-> heap], functions, variables)

\* The lookup of _validateExpression_function, for the arguments that
\* _validateExpression_parameters returned.
FunctionReference(token, parameters) ==
    LET identifier == Drop(token.s, 2)
        arity == Len(parameters.parameters)
        spec == <<arity, identifier>>
        function == DictSubscript(parameters.functions, spec)
        looked == Subscripted(parameters.functions, spec)
        kind == AndOr(DictHas(looked, spec), _FUNCTION_CUSTOM, _FUNCTION_EXTERNAL)
        builtin == ItemsGet(_FUNCTIONS, spec)
        none == [err |-> "", token |-> NumTok(<<0, 1>>), tokens |-> parameters.tokens, heap |-> parameters.heap,
                 functions |-> looked, variables |-> parameters.variables]
    IN  IF parameters.err # "" THEN [none EXCEPT !.err = parameters.err, !.functions = parameters.functions]
        ELSE IF ~function.none THEN [none EXCEPT !.token = RefTok(kind, function.val, <<0, 1>>, <<>>, parameters.parameters)]
        ELSE IF ~builtin.none THEN [none EXCEPT !.token = RefTok(_FUNCTION_BUILTIN, 0, <<0, 1>>, builtin.val, parameters.parameters)]
        ELSE [none EXCEPT !.err = "FunctionError"]

\* The compiled reference of a function token, and the tokens left after
\* its argument list.
_validateExpression_function(token, tokens, functions, variables, heap) ==
    FunctionReference(token, _validateExpression_parameters(tokens, functions, variables, heap))

\* Whether an implicit multiplication is put before a variable or function
\* reference, before "(" and before a literal.
MultiplyBeforeReference(st) == st.last_variable \/ st.last_parenthesis \/ st.last_factor
MultiplyBeforeParenthesis(st) == st.last_variable \/ st.last_factor
\* A test before a literal that also looks at last_factor, as the tests
\* before a reference do.
MultiplyBeforeLiteral_factor(st) == st.last_variable \/ st.last_parenthesis \/ st.last_factor
MultiplyBeforeLiteral(st) == st.last_variable \/ st.last_parenthesis

Times(expression, multiply) == IF multiply THEN Append(expression, StrTok(<<"*">>)) ELSE expression

\* do_negation that every operator, the closing parenthesis included,
\* switches on and that no reference switches off.
NegationAfter_operators(token, st) == IF IsIn(token, _OPERATORS) THEN TRUE ELSE st.do_negation

\* do_negation after a string token that is not a negation.
NegationAfter(token, st) ==
    IF token.s[1] \in _NEGATION_DISABLER THEN FALSE
    ELSE IF IsIn(token, _OPERATORS) THEN TRUE
    ELSE st.do_negation

\* The step of _validateExpression for a function token, which was resolved
\* into function.
FunctionStep(token, st, function) ==
    IF function.err # "" THEN
        [err |-> function.err, expression |-> <<>>, heap |-> st.heap, functions |-> function.functions, variables |-> function.variables]
    ELSE ValidateExpressionLoop(function.tokens,
             [st EXCEPT !.do_negation = NegationAfter(token, st),
                        !.expression = Append(Times(st.expression, MultiplyBeforeReference(st)), function.token),
                        !.heap = function.heap,
                        !.last_parenthesis = FALSE, !.last_factor = FALSE, !.last_variable = TRUE],
             function.functions, function.variables)

\* The while loop of _validateExpression. st holds the flags, the
\* expression built so far and the heap.
ValidateExpressionLoop(tokens, st, functions, variables) ==
    IF tokens = <<>> THEN [err |-> "", expression |-> st.expression, heap |-> st.heap, functions |-> functions, variables |-> variables]
    ELSE LET token == Head(tokens)
             variable == _validateExpression_variable(token, variables)
         IN  IF IsStr(token) THEN
                 IF st.do_negation /\ Is(token, "-") THEN
                     ValidateExpressionLoop(Tail(tokens), [st EXCEPT !.expression = st.expression \o <<NumTok(Whole(-1)), StrTok(<<_NEGATION_MULTIPLIER>>)>>], functions, variables)
                 ELSE IF token.s[1] = _VARIABLE_PREFIX THEN
                     IF variable.err # "" THEN
                         [err |-> variable.err, expression |-> <<>>, heap |-> st.heap, functions |-> functions, variables |-> variable.variables]
                     ELSE ValidateExpressionLoop(Tail(tokens),
                              [st EXCEPT !.do_negation = NegationAfter(token, st),
                                         !.expression = Append(Times(st.expression, MultiplyBeforeReference(st)), variable.token),
                                         !.last_parenthesis = FALSE, !.last_factor = FALSE, !.last_variable = TRUE],
                              functions, variable.variables)
                 ELSE IF token.s[1] = _FUNCTION_PREFIX THEN
                     FunctionStep(token, st, _validateExpression_function(token, Tail(tokens), functions, variables, st.heap))
                 ELSE ValidateExpressionLoop(Tail(tokens),
                          [st EXCEPT !.do_negation = NegationAfter(token, st),
                                     !.expression = Append(Times(st.expression, Is(token, "(") /\ MultiplyBeforeParenthesis(st)), token),
                                     \* line 403 resets the three flags after every such
                                     \* token, also after the ")" for which line 400 has
                                     \* just set last_parenthesis
                                     !.last_parenthesis = FALSE, !.last_factor = FALSE, !.last_variable = FALSE],
                          functions, variables)
             ELSE ValidateExpressionLoop(Tail(tokens),
                      [st EXCEPT !.do_negation = FALSE,
                                 !.expression = Append(Times(st.expression, MultiplyBeforeLiteral(st)), token),
                                 !.last_variable = FALSE, !.last_parenthesis = FALSE, !.last_factor = TRUE],
                      functions, variables)

\* An expression that is handed on without _validateSyntax.
CheckedExpression_unchecked(loop, heap) ==
    IF loop.err # "" THEN [loop EXCEPT !.expression = <<>>, !.heap = heap] ELSE loop

\* _validateSyntax(expression, raw_tokens) on the expression the loop built.
CheckedExpression(loop, heap) ==
    LET syntax == _validateSyntax(loop.expression)
    IN  IF loop.err # "" THEN [loop EXCEPT !.expression = <<>>, !.heap = heap]
        ELSE IF syntax # "" THEN [loop EXCEPT !.err = syntax, !.expression = <<>>, !.heap = heap]
        ELSE loop

\* The resolved expression of raw_tokens, checked by _validateSyntax.
_validateExpression(raw_tokens, functions, variables, heap) ==
    CheckedExpression(
        ValidateExpressionLoop(raw_tokens,
            [do_negation |-> TRUE, last_variable |-> FALSE, last_parenthesis |-> FALSE, last_factor |-> FALSE,
             expression |-> <<>>, heap |-> heap],
            functions, variables),
        heap)

\* The result of a compile: the exception, the heap, and the two dicts that
\* the caller passed as they are after the call.
Compilation(err, heap, functions, variables) == [err |-> err, heap |-> heap, functions |-> functions, variables |-> variables]

\* self._equation = _convertRPN(validated expression)
StoreRPN(heap, self, validated) ==
    LET rpn == _convertRPN(validated.expression)
    IN  IF validated.err # "" THEN Compilation(validated.err, heap, validated.functions, validated.variables)
        ELSE IF rpn.err # "" THEN Compilation(rpn.err, heap, validated.functions, validated.variables)
        ELSE Compilation("", [validated.heap EXCEPT ![self].equationNone = FALSE, ![self].equation = rpn.rpn_tokens],
                         validated.functions, validated.variables)

\* A compile that compiles again what is compiled.
Equation_compile_again(heap, self, functions, variables) ==
    IF heap[self].tokens = <<>> THEN Compilation("TokensError", heap, functions, variables)
    ELSE StoreRPN(heap, self, _validateExpression(heap[self].tokens, functions, variables, heap))

\* Equation.compile on the object self. An object whose _equation is
\* neither None nor empty is left as it is.
Equation_compile(heap, self, functions, variables) ==
    IF ~heap[self].equationNone /\ heap[self].equation # <<>> THEN Compilation("", heap, functions, variables)
    ELSE IF heap[self].tokens = <<>> THEN Compilation("TokensError", heap, functions, variables)
    ELSE StoreRPN(heap, self, _validateExpression(heap[self].tokens, functions, variables, heap))

RECURSIVE ShadowParameters(_, _)
\* for (name, parameter) in self._parameters: variables[name] = parameter
ShadowParameters(variables, parameters) ==
    IF parameters = <<>> THEN variables
    ELSE ShadowParameters(DictSet(variables, parameters[1][1], parameters[1][2]), Tail(parameters))

\* A compile that sets the parameters in the dict of the caller itself.
CallerVariables_shared(variables, compiled) == compiled

\* variables = variables.copy(): the parameters are set in a copy, and the
\* dict of the caller is after the call what the caller passed.
CallerVariables(variables, compiled) == [compiled EXCEPT !.variables = variables]

\* Function.compile: the body is compiled against a copy of variables in
\* which the parameters are set.
Function_compile(heap, self, functions, variables) ==
    CallerVariables(variables, Equation_compile(heap, self, functions, ShadowParameters(variables, heap[self].parameters)))

(***************************************************************************)
(* Evaluation                                                              *)
(***************************************************************************)
\* An argument handed to Function.evaluate: a number or an Equation.
NumberArgument(v) == [number |-> TRUE, v |-> v, e |-> 0]
EquationArgument(e) == [number |-> FALSE, v |-> <<0, 1>>, e |-> e]

Raise(err, heap, stack) == [err |-> err, val |-> <<0, 1>>, heap |-> heap, stack |-> stack]
Return(val, heap, stack) == [err |-> "", val |-> val, heap |-> heap, stack |-> stack]

\* A membership test that looks at the caller only, the last entry of the
\* chain.
InStack_caller(self, stack) == stack # <<>> /\ stack[Len(stack)] = self

\* self in stack
InStack(self, stack) == \E i \in 1..Len(stack) : stack[i] = self

\* "if not stack: stack = []" followed by "stack.append(self)", seen from
\* the caller: the list the caller passed, after the call. A list that is
\* not empty is the caller's own object and gets self appended.
CallerStack(stack, self) == IF stack = <<>> THEN stack ELSE Append(stack, self)

\* The operators with the guard of / and \ before % too.
ApplyOperator_guarded(i, value_left, value_right) ==
    CASE i = "^" -> IF Less(Whole(9999999), value_left) \/ Less(Whole(1024), value_right)
                    THEN [err |-> "ThresholdError", val |-> <<0, 1>>]
                    ELSE Pow(value_left, value_right)
      [] i \in {"*", _NEGATION_MULTIPLIER} -> [err |-> "", val |-> Mul(value_left, value_right)]
      [] i = "/" -> IF IsZero(value_right) THEN [err |-> "DivisionByZeroError", val |-> <<0, 1>>]
                    ELSE [err |-> "", val |-> TrueDiv(value_left, value_right)]
      [] i = "\\" -> IF IsZero(value_right) THEN [err |-> "DivisionByZeroError", val |-> <<0, 1>>]
                     ELSE [err |-> "", val |-> FloorDiv(value_left, value_right)]
      [] i = "%" -> IF IsZero(value_right) THEN [err |-> "DivisionByZeroError", val |-> <<0, 1>>]
                    ELSE [err |-> "", val |-> Mod(value_left, value_right)]
      [] i = "+" -> [err |-> "", val |-> Add(value_left, value_right)]
      [] i = "-" -> [err |-> "", val |-> Sub(value_left, value_right)]
      [] i = "<" -> [err |-> "", val |-> Min(value_left, value_right)]
      [] i = ">" -> [err |-> "", val |-> Max(value_left, value_right)]

\* value_left <op> value_right, with the guards of _evaluateRPN. A zero
\* right operand of % raises Python's ZeroDivisionError.
ApplyOperator(i, value_left, value_right) ==
    CASE i = "^" -> IF Less(Whole(9999999), value_left) \/ Less(Whole(1024), value_right)
                    THEN [err |-> "ThresholdError", val |-> <<0, 1>>]
                    ELSE Pow(value_left, value_right)
      [] i \in {"*", _NEGATION_MULTIPLIER} -> [err |-> "", val |-> Mul(value_left, value_right)]
      [] i = "/" -> IF IsZero(value_right) THEN [err |-> "DivisionByZeroError", val |-> <<0, 1>>]
                    ELSE [err |-> "", val |-> TrueDiv(value_left, value_right)]
      [] i = "\\" -> IF IsZero(value_right) THEN [err |-> "DivisionByZeroError", val |-> <<0, 1>>]
                     ELSE [err |-> "", val |-> FloorDiv(value_left, value_right)]
      [] i = "%" -> IF IsZero(value_right) THEN [err |-> "ZeroDivisionError", val |-> <<0, 1>>]
                    ELSE [err |-> "", val |-> Mod(value_left, value_right)]
      [] i = "+" -> [err |-> "", val |-> Add(value_left, value_right)]
      [] i = "-" -> [err |-> "", val |-> Sub(value_left, value_right)]
      [] i = "<" -> [err |-> "", val |-> Min(value_left, value_right)]
      [] i = ">" -> [err |-> "", val |-> Max(value_left, value_right)]

RECURSIVE Equation_evaluate(_, _, _)
RECURSIVE _evaluateRPN(_, _, _)
RECURSIVE EvaluateLoop(_, _, _, _, _)
RECURSIVE _evaluate(_, _, _)
RECURSIVE EvaluateArguments(_, _, _, _)
RECURSIVE Variable_compute(_, _, _)
RECURSIVE Variable_evaluate(_, _, _, _)
RECURSIVE Parameter_assign(_, _, _, _)
RECURSIVE AssignLoop(_, _, _, _, _)
RECURSIVE Function_evaluate(_, _, _, _)
RECURSIVE MethodEvaluate(_, _, _)

\* The depth of nested evaluate calls at which the interpreter gives up
\* with its own "maximum recursion depth exceeded" RuntimeError (1000
\* frames in CPython; the model scales it down).
RecursionLimit == 8

\* The result of the body, with the stack list as the caller sees it.
SeenByCaller(result, stack) == [result EXCEPT !.stack = stack]

\* An evaluate that does not look for self in the chain.
Equation_evaluate_unguarded(heap, self, stack) ==
    IF Len(stack) >= RecursionLimit THEN Raise("RuntimeError", heap, stack)
    ELSE IF heap[self].equationNone THEN Raise("CompilationError", heap, stack)
    ELSE SeenByCaller(_evaluateRPN(heap, heap[self].equation, Append(stack, self)), CallerStack(stack, self))

\* Equation.evaluate(self, stack). The result carries the heap and the
\* caller's stack list as the call leaves them.
Equation_evaluate(heap, self, stack) ==
    IF Len(stack) >= RecursionLimit THEN Raise("RuntimeError", heap, stack)
    ELSE IF heap[self].equationNone THEN Raise("CompilationError", heap, stack)
    ELSE IF stack # <<>> /\ InStack(self, stack) THEN Raise("RecursionError", heap, stack)
    ELSE SeenByCaller(_evaluateRPN(heap, heap[self].equation, Append(stack, self)), CallerStack(stack, self))

\* The value of an argument before the values of the arguments after it.
ValueBefore(val, rest) == [rest EXCEPT !.vals = <<val>> \o rest.vals]

\* The list comprehension of _evaluate after the n-th argument evaluated
\* into first.
ArgumentsAfter(first, arguments, n) ==
    IF first.err # "" THEN [err |-> first.err, vals |-> <<>>, heap |-> first.heap, stack |-> first.stack]
    ELSE ValueBefore(first.val, EvaluateArguments(first.heap, arguments, n + 1, first.stack))

\* [i.evaluate(call_stack) for i in token[2]]: the arguments from the n-th
\* on, each an Equation evaluated on the same call_stack.
EvaluateArguments(heap, arguments, n, call_stack) ==
    IF n > Len(arguments) THEN [err |-> "", vals |-> <<>>, heap |-> heap, stack |-> call_stack]
    ELSE ArgumentsAfter(Equation_evaluate(heap, arguments[n], call_stack), arguments, n)

\* token[1].evaluate(call_stack): the method of the class of the object.
MethodEvaluate(heap, self, stack) ==
    IF heap[self].cls \in {"Variable", "Parameter"} THEN Variable_evaluate(heap, self, stack, FALSE)
    ELSE Equation_evaluate(heap, self, stack)

\* token[1](*arguments) of a built-in function and
\* token[1].evaluate(arguments, call_stack) of an external one, for
\* the arguments evaluated into arguments.
CallWithValues(token, arguments) ==
    LET builtin == CallBuiltin(token.s, arguments.vals)
    IN  IF arguments.err # "" THEN Raise(arguments.err, arguments.heap, arguments.stack)
        ELSE IF token.k = _FUNCTION_BUILTIN THEN
            IF builtin.err # "" THEN Raise(builtin.err, arguments.heap, arguments.stack)
            ELSE Return(builtin.val, arguments.heap, arguments.stack)
        ELSE Function_evaluate(arguments.heap, token.e, [n \in 1..Len(arguments.vals) |-> NumberArgument(arguments.vals[n])], arguments.stack)

\* _evaluate(token, call_stack)
_evaluate(heap, token, call_stack) ==
    IF token.t = "ref" THEN
        IF token.k = _VARIABLE_CUSTOM THEN MethodEvaluate(heap, token.e, call_stack)
        ELSE IF token.k \in {_VARIABLE_BUILTIN, _VARIABLE_EXTERNAL} THEN Return(token.v, heap, call_stack)
        ELSE IF token.k = _FUNCTION_CUSTOM THEN
            Function_evaluate(heap, token.e, [n \in 1..Len(token.a) |-> EquationArgument(token.a[n])], call_stack)
        ELSE IF token.k \in {_FUNCTION_BUILTIN, _FUNCTION_EXTERNAL} THEN
            CallWithValues(token, EvaluateArguments(heap, token.a, 1, call_stack))
        ELSE Raise("UnknownTypeError", heap, call_stack)
    ELSE Return(token.v, heap, call_stack)

\* The step of _evaluateRPN that pushes the result of the operator.
Applied(tokens, n, stack, value_left, applied) ==
    IF applied.err # "" THEN Raise(applied.err, value_left.heap, value_left.stack)
    ELSE EvaluateLoop(value_left.heap, tokens, n + 1, Append(Take(stack, Len(stack) - 2), NumTok(applied.val)), value_left.stack)

\* The step of _evaluateRPN after value_left = _evaluate(token_left, call_stack).
LeftOperand(tokens, n, stack, right, value_left) ==
    IF value_left.err # "" THEN value_left
    ELSE Applied(tokens, n, stack, value_left, ApplyOperator(tokens[n].s[1], value_left.val, right))

\* The step of _evaluateRPN after value_right = _evaluate(token_right, call_stack).
RightOperand(tokens, n, stack, value_right) ==
    IF value_right.err # "" THEN value_right
    ELSE LeftOperand(tokens, n, stack, value_right.val, _evaluate(value_right.heap, stack[Len(stack) - 1], value_right.stack))

\* The step of _evaluateRPN after stack.append(_evaluate(i, call_stack)).
Pushed(tokens, n, stack, pushed) ==
    IF pushed.err # "" THEN pushed
    ELSE EvaluateLoop(pushed.heap, tokens, n + 1, Append(stack, NumTok(pushed.val)), pushed.stack)

\* The for loop of _evaluateRPN from the n-th token, with the operand
\* stack and the call_stack of this invocation.
EvaluateLoop(heap, tokens, n, stack, call_stack) ==
    IF n > Len(tokens) THEN
        IF Len(stack) > 1 THEN Raise("IncompleteExpressionError", heap, call_stack)
        ELSE IF Len(stack) < 1 THEN Raise("NullSubexpressionError", heap, call_stack)
        ELSE Return(stack[1].v, heap, call_stack)
    ELSE IF IsIn(tokens[n], _PURE_OPERATORS) THEN
        IF Len(stack) < 2 THEN Raise("IndexError", heap, call_stack)
        ELSE RightOperand(tokens, n, stack, _evaluate(heap, stack[Len(stack)], call_stack))
    ELSE Pushed(tokens, n, stack, _evaluate(heap, tokens[n], call_stack))

\* _evaluateRPN(tokens, call_stack): call_stack is the copy the caller
\* made, so the stack of the result is of no use to the caller.
_evaluateRPN(heap, tokens, call_stack) == EvaluateLoop(heap, tokens, 1, <<>>, call_stack)

\* self._computed_value = the result of Equation.evaluate(self, stack)
Cached(self, result) ==
    IF result.err # "" THEN result
    ELSE [result EXCEPT !.heap = [result.heap EXCEPT ![self].computedNone = FALSE, ![self].computed_value = result.val]]

\* Variable.compute(self, stack)
Variable_compute(heap, self, stack) ==
    IF ~heap[self].computedNone THEN Return(heap[self].computed_value, heap, stack)
    ELSE Cached(self, Equation_evaluate(heap, self, stack))

\* if self._computed_value: a value that is not None and not zero
HasComputedValue(object) == ~object.computedNone /\ ~IsZero(object.computed_value)

\* The two branches of Variable.evaluate after the call of compute, if any.
ComputedOrEvaluated(self, computed) ==
    IF computed.err # "" THEN computed
    ELSE IF HasComputedValue(computed.heap[self]) THEN Return(computed.heap[self].computed_value, computed.heap, computed.stack)
    ELSE Equation_evaluate(computed.heap, self, computed.stack)

\* Variable.evaluate(self, stack, compute)
Variable_evaluate(heap, self, stack, compute) ==
    ComputedOrEvaluated(self, IF compute THEN Variable_compute(heap, self, stack) ELSE Return(<<0, 1>>, heap, stack))

\* self._equation = [equation] for a number, equation.getRPNTokens() for
\* an Equation
Bound(heap, self, argument) ==
    [heap EXCEPT ![self].equationNone = IF argument.number THEN FALSE ELSE heap[argument.e].equationNone,
                 ![self].equation = IF argument.number THEN <<NumTok(argument.v)>> ELSE heap[argument.e].equation]

\* Parameter.assign(self, equation, stack): compute runs on a copy of
\* stack.
Parameter_assign(heap, self, argument, stack) ==
    SeenByCaller(Variable_compute(Bound(heap, self, argument), self, stack), stack)

\* Parameter.unassign(self)
Parameter_unassign(heap, self) ==
    [heap EXCEPT ![self].equationNone = TRUE, ![self].equation = <<>>, ![self].computedNone = TRUE, ![self].computed_value = <<0, 1>>]

\* The first for loop of Function.evaluate after the n-th parameter was
\* assigned.
AssignNext(assigned, parameters, arguments, n, stack) ==
    IF assigned.err # "" THEN assigned
    ELSE AssignLoop(assigned.heap, parameters, arguments, n + 1, stack)

\* The first for loop of Function.evaluate from the n-th pair of
\* zip(self._parameters, arguments).
AssignLoop(heap, parameters, arguments, n, stack) ==
    IF n > Len(parameters) \/ n > Len(arguments) THEN Return(<<0, 1>>, heap, stack)
    ELSE AssignNext(Parameter_assign(heap, parameters[n][2], arguments[n], stack), parameters, arguments, n, stack)

RECURSIVE UnassignLoop(_, _)
\* The second for loop of Function.evaluate.
UnassignLoop(heap, parameters) ==
    IF parameters = <<>> THEN heap
    ELSE UnassignLoop(Parameter_unassign(heap, parameters[1][2]), Tail(parameters))

\* The second for loop of Function.evaluate and its return, which an
\* exception of the body skips.
Unassigned(parameters, result) ==
    IF result.err # "" THEN result
    ELSE [result EXCEPT !.heap = UnassignLoop(result.heap, parameters)]

\* Function.evaluate after its first for loop.
EvaluateBody(self, parameters, stack, assigned) ==
    IF assigned.err # "" THEN assigned
    ELSE Unassigned(parameters, Equation_evaluate(assigned.heap, self, stack))

\* Function.evaluate(self, arguments, stack)
Function_evaluate(heap, self, arguments, stack) ==
    EvaluateBody(self, heap[self].parameters, stack, AssignLoop(heap, heap[self].parameters, arguments, 1, stack))

(***************************************************************************)
(* Session                                                                 *)
(***************************************************************************)
\* The names of the parameter text of a function declaration.
ParameterNames(text) ==
    IF text # <<>> THEN [j \in 1..Len(split(text, _FUNCTION_DELIMITER)) |-> strip(split(text, _FUNCTION_DELIMITER)[j])] ELSE <<>>

\* The Function object and one Parameter per name, allocated after it.
FunctionObjects(heap, body, name, names) ==
    Append(heap, Object("Function", name, body, [j \in 1..Len(names) |-> <<names[j], NewId(heap) + j>>]))
    \o [j \in 1..Len(names) |-> Object("Parameter", names[j], <<>>, <<>>)]

\* Function.__init__(tokens, name), tokens being the parameter text
\* followed by the body.
NewFunction(heap, tokens, name) ==
    IF Tail(tokens) = <<>> THEN [err |-> "TokensError", heap |-> heap, self |-> 0]
    ELSE [err |-> "", heap |-> FunctionObjects(heap, Tail(tokens), name, ParameterNames(tokens[1].s)), self |-> NewId(heap)]

\* Variable.__init__(tokens, name)
NewVariable(heap, tokens, name) ==
    IF tokens = <<>> THEN [err |-> "TokensError", heap |-> heap, self |-> 0]
    ELSE [err |-> "", heap |-> Append(heap, Object("Variable", name, tokens, <<>>)), self |-> NewId(heap)]

\* Equation.__init__(tokens)
NewEquation(heap, tokens) ==
    IF tokens = <<>> THEN [err |-> "TokensError", heap |-> heap, self |-> 0]
    ELSE [err |-> "", heap |-> Append(heap, Object("Equation", <<>>, tokens, <<>>)), self |-> NewId(heap)]

\* An arity that does not tell the functions of one name apart.
getArity_unary(heap, self) == 1

\* Function.getArity()
getArity(heap, self) == Len(heap[self].parameters)

\* Session() without input. variable_missing and function_missing are what
\* the lookup handlers return (see Dict).
EmptySession(variable_missing, function_missing) ==
    [_variables |-> Dict(<<>>, variable_missing), _functions |-> Dict(<<>>, function_missing), _equations |-> <<>>]

RECURSIVE ParseLines(_, _, _)

\* self._variables[name] = Variable(tokens[1:], name), and the lines after it
VariableLine(session, lines, name, variable) ==
    IF variable.err # "" THEN [err |-> variable.err, heap |-> variable.heap, session |-> session]
    ELSE ParseLines(variable.heap, [session EXCEPT !._variables = DictSet(@, name, variable.self)], Tail(lines))

\* self._functions[(function.getArity(), name)] = Function(tokens[1:], name),
\* and the lines after it
FunctionLine(session, lines, name, function) ==
    IF function.err # "" THEN [err |-> function.err, heap |-> function.heap, session |-> session]
    ELSE ParseLines(function.heap, [session EXCEPT !._functions = DictSet(@, <<getArity(function.heap, function.self), name>>, function.self)], Tail(lines))

\* self._equations.append(Equation(tokens)), and the lines after it
EquationLine(session, lines, equation) ==
    ParseLines(equation.heap, [session EXCEPT !._equations = Append(@, equation.self)], Tail(lines))

\* The body of the first loop of Session.__init__ for a line parsed into
\* parsed.
ParsedLines(heap, session, lines, parsed) ==
    IF parsed.err # "" THEN [err |-> parsed.err, heap |-> heap, session |-> session]
    ELSE IF parsed.tokens = <<>> THEN ParseLines(heap, session, Tail(lines))
    ELSE IF parsed.line_type = _LINE_VARIABLE THEN
        VariableLine(session, lines, parsed.tokens[1].s, NewVariable(heap, Tail(parsed.tokens), parsed.tokens[1].s))
    ELSE IF parsed.line_type = _LINE_FUNCTION THEN
        FunctionLine(session, lines, parsed.tokens[1].s, NewFunction(heap, Tail(parsed.tokens), parsed.tokens[1].s))
    ELSE EquationLine(session, lines, NewEquation(heap, parsed.tokens))

\* The first loop of Session.__init__ over input.split(";").
ParseLines(heap, session, lines) ==
    IF lines = <<>> THEN [err |-> "", heap |-> heap, session |-> session]
    ELSE ParsedLines(heap, session, lines, _parseLine(strip(Head(lines))))

\* entity.compile(functions, variables): the method of the class.
MethodCompile(heap, self, functions, variables) ==
    IF heap[self].cls = "Function" THEN Function_compile(heap, self, functions, variables)
    ELSE Equation_compile(heap, self, functions, variables)

RECURSIVE CompileAll(_, _, _)

\* The session whose two dicts a compile was handed, after the compile.
Handed(session, compiled) == [session EXCEPT !._functions = compiled.functions, !._variables = compiled.variables]

\* The compile loops of Session.__init__ after the first entity.
CompileRest(session, entities, compiled) ==
    IF compiled.err # "" THEN [err |-> compiled.err, heap |-> compiled.heap, session |-> Handed(session, compiled)]
    ELSE CompileAll(compiled.heap, Handed(session, compiled), Tail(entities))

\* for entity in entities: entity.compile(self._functions, self._variables)
CompileAll(heap, session, entities) ==
    IF entities = <<>> THEN [err |-> "", heap |-> heap, session |-> session]
    ELSE CompileRest(session, entities, MethodCompile(heap, Head(entities), session._functions, session._variables))

\* The functions, then the variables, then the equations, the functions
\* and the variables in the orders in which values() may yield them.
CompileOrders(session) ==
    {functions \o variables \o session._equations :
        functions \in Iterations(DictValues(session._functions)), variables \in Iterations(DictValues(session._variables))}

\* Session.__init__ after its first loop: what the three compile loops
\* may leave.
CompileParsed(parsed) ==
    IF parsed.err # "" THEN {parsed}
    ELSE {CompileAll(parsed.heap, parsed.session, entities) : entities \in CompileOrders(parsed.session)}

\* Session.__init__(input, variable_lookup_handler, function_lookup_handler):
\* the outcomes the constructor may have. When err is not "", no Session
\* exists.
Session_init(heap, input, variable_missing, function_missing) ==
    IF input = <<>> THEN {[err |-> "", heap |-> heap, session |-> EmptySession(variable_missing, function_missing)]}
    ELSE CompileParsed(ParseLines(heap, EmptySession(variable_missing, function_missing), split(input, ";")))

\* The characters of names in the order of their code points.
CodePointOrder ==
    <<"A","B","C","D","E","F","G","H","I","J","K","L","M","N","O","P","Q","R","S","T","U","V","W","X","Y","Z","_",
      "a","b","c","d","e","f","g","h","i","j","k","l","m","n","o","p","q","r","s","t","u","v","w","x","y","z">>
CodePoint(c) == CHOOSE i \in 1..Len(CodePointOrder) : CodePointOrder[i] = c

RECURSIVE StringLess(_, _)
\* a < b on strings
StringLess(a, b) ==
    IF b = <<>> THEN FALSE
    ELSE IF a = <<>> THEN TRUE
    ELSE IF a[1] # b[1] THEN CodePoint(a[1]) < CodePoint(b[1])
    ELSE StringLess(Tail(a), Tail(b))

\* The position of the pair with the least name.
Least(values) == CHOOSE i \in 1..Len(values) : \A j \in 1..Len(values) : j = i \/ StringLess(values[i][1], values[j][1])

\* The list without its i-th element.
Without(values, i) == [j \in 1..(Len(values) - 1) |-> IF j < i THEN values[j] ELSE values[j + 1]]

\* values in the order in which the loop appended them
sorted_appended(values) == values

RECURSIVE sorted(_)
\* sorted(values) for a list of (name, value) with distinct names
sorted(values) ==
    IF values = <<>> THEN <<>>
    ELSE <<values[Least(values)]>> \o sorted(Without(values, Least(values)))

RECURSIVE ComputeVariables(_, _, _)

\* values.append((name, value)) before the pairs of the variables after it
PairBefore(name, val, rest) == [rest EXCEPT !.values = << <<name, val>> >> \o rest.values]

\* The first loop of Session.evaluate after variable.evaluate() of the n-th
\* item.
ComputeNext(items, n, value) ==
    IF value.err # "" THEN [err |-> value.err, heap |-> value.heap, values |-> <<>>]
    ELSE PairBefore(items[n].k, value.val, ComputeVariables(value.heap, items, n + 1))

\* The first loop of Session.evaluate after variable.compute() of the n-th
\* item.
EvaluateComputed(items, n, computed) ==
    IF computed.err # "" THEN [err |-> computed.err, heap |-> computed.heap, values |-> <<>>]
    ELSE ComputeNext(items, n, MethodEvaluate(computed.heap, items[n].v, <<>>))

\* The first loop of Session.evaluate from the n-th item of _variables.
ComputeVariables(heap, items, n) ==
    IF n > Len(items) THEN [err |-> "", heap |-> heap, values |-> <<>>]
    ELSE EvaluateComputed(items, n, Variable_compute(heap, items[n].v, <<>>))

(***************************************************************************)
(* _renderExpression                                                       *)
(***************************************************************************)
DigitCharacters == <<"0", "1", "2", "3", "4", "5", "6", "7", "8", "9">>

RECURSIVE IntText(_)
\* str(i) of an int that is not negative: its decimal digits
IntText(n) == IF n < 10 THEN <<DigitCharacters[n + 1]>> ELSE IntText(n \div 10) \o <<DigitCharacters[(n % 10) + 1]>>

\* str(i) of the token i after the branches of _renderExpression: a name
\* without its prefix, any other string as it is, the digits of an int.
\* The lexer's tokens hold no negative number; the text of a float is not
\* modelled, and the expressions that the model renders have none.
TokenText(i) ==
    IF ~IsStr(i) THEN IntText(i.v[1])
    ELSE IF i.s[1] \in {_FUNCTION_PREFIX, _VARIABLE_PREFIX} THEN Drop(i.s, 2)
    ELSE i.s

\* The buffer after the padding that goes before the token i.
Padded(i, pad, buffer) ==
    IF pad /\ ~(Is(i, ")") \/ Is(i, _FUNCTION_DELIMITER)) THEN Append(buffer, <<" ">>) ELSE buffer

\* buffer[-1] == pad_character and buffer[-2] in _PURE_OPERATORS
AfterOperator(buffer) ==
    /\ Len(buffer) >= 2
    /\ buffer[Len(buffer)] = <<" ">>
    /\ Len(buffer[Len(buffer) - 1]) = 1
    /\ buffer[Len(buffer) - 1][1] \in _PURE_OPERATORS

\* pad after the token i, for the buffer that holds the padding before i.
PadAfter(i, pad, buffer) ==
    IF ~IsStr(i) THEN TRUE
    ELSE IF i.s[1] = _FUNCTION_PREFIX THEN FALSE
    ELSE IF i.s[1] = _VARIABLE_PREFIX THEN TRUE
    ELSE IF Is(i, "-") THEN (IF AfterOperator(buffer) THEN FALSE ELSE pad)
    ELSE ~Is(i, "(")

RECURSIVE RenderLoop(_, _, _, _)
\* The body of the loop for the n-th token, after its padding.
RenderStep(tokens, n, pad, buffer) ==
    RenderLoop(tokens, n + 1, PadAfter(tokens[n], pad, buffer), Append(buffer, TokenText(tokens[n])))

\* for i in tokens, from the n-th token
RenderLoop(tokens, n, pad, buffer) ==
    IF n > Len(tokens) THEN buffer ELSE RenderStep(tokens, n, pad, Padded(tokens[n], pad, buffer))

RECURSIVE Joined(_)
\* ''.join(buffer)
Joined(buffer) == IF buffer = <<>> THEN <<>> ELSE Head(buffer) \o Joined(Tail(buffer))

\* _renderExpression(tokens) for the tokens of the lexer
_renderExpression(tokens) == Joined(RenderLoop(tokens, 1, FALSE, <<>>))

\* Equation.__str__
Equation_str(heap, self) == _renderExpression(heap[self].tokens)

RECURSIVE EvaluateEquations(_, _, _)

\* (str(equation), equation.evaluate()) before the pairs of the equations
\* after it
ResultBefore(text, val, rest) == [rest EXCEPT !.results = << <<text, val>> >> \o rest.results]

\* The list comprehension of Session.evaluate after the n-th equation.
EvaluateNext(equations, n, first) ==
    IF first.err # "" THEN [err |-> first.err, heap |-> first.heap, results |-> <<>>]
    ELSE ResultBefore(Equation_str(first.heap, equations[n]), first.val, EvaluateEquations(first.heap, equations, n + 1))

\* [(str(equation), equation.evaluate()) for equation in self._equations]
\* from the n-th equation
EvaluateEquations(heap, equations, n) ==
    IF n > Len(equations) THEN [err |-> "", heap |-> heap, results |-> <<>>]
    ELSE EvaluateNext(equations, n, MethodEvaluate(heap, equations[n], <<>>))

\* Variable.reset()
Variable_reset(heap, self) == [heap EXCEPT ![self].computedNone = TRUE, ![self].computed_value = <<0, 1>>]

RECURSIVE ResetAll(_, _)
\* for variable in self._variables.values(): variable.reset()
ResetAll(heap, variables) ==
    IF variables = <<>> THEN heap ELSE ResetAll(Variable_reset(heap, Head(variables)), Tail(variables))

\* The reset loop and the return of Session.evaluate, which an exception
\* of an equation skips.
ResetAndReturn(session, values, evaluated) ==
    IF evaluated.err # "" THEN [err |-> evaluated.err, heap |-> evaluated.heap, values |-> <<>>, results |-> <<>>]
    ELSE [err |-> "", heap |-> ResetAll(evaluated.heap, DictValues(session._variables)),
          values |-> sorted(values), results |-> evaluated.results]

\* Session.evaluate after its first loop, which an exception of a variable
\* ends.
EvaluateQueued(session, computed) ==
    IF computed.err # "" THEN [err |-> computed.err, heap |-> computed.heap, values |-> <<>>, results |-> <<>>]
    ELSE ResetAndReturn(session, computed.values, EvaluateEquations(computed.heap, session._equations, 1))

\* Session.evaluate(): the outcomes the call may have, one for each order
\* in which self._variables.items() may yield the variables.
Session_evaluate(heap, session) ==
    {EvaluateQueued(session, ComputeVariables(heap, items, 1)) : items \in Iterations(session._variables.items)}

\* The entity a create call returns, when compile did not raise, and the
\* session after the call.
CompiledEntity(heap, session, self, compiled) ==
    IF compiled.err # "" THEN [err |-> compiled.err, heap |-> heap, self |-> 0, session |-> Handed(session, compiled)]
    ELSE [err |-> "", heap |-> compiled.heap, self |-> self, session |-> Handed(session, compiled)]

\* entity.compile(self._functions, self._variables) of a create call
CompileMade(heap, session, made) ==
    IF made.err # "" THEN [err |-> made.err, heap |-> heap, self |-> 0, session |-> session]
    ELSE CompiledEntity(heap, session, made.self, MethodCompile(made.heap, made.self, session._functions, session._variables))

\* Checks that take a line of any kind.
ParsedAs_anykind(parsed, line_type) ==
    IF parsed.err # "" THEN parsed.err
    ELSE IF parsed.tokens = <<>> THEN "InstantiationError"
    ELSE ""

\* The checks of a create call on what _parseLine returned.
ParsedAs(parsed, line_type) ==
    IF parsed.err # "" THEN parsed.err
    ELSE IF parsed.tokens = <<>> THEN "InstantiationError"
    ELSE IF parsed.line_type # line_type THEN "InstantiationError"
    ELSE ""

CreateVariableFrom(heap, session, parsed) ==
    IF ParsedAs(parsed, _LINE_VARIABLE) # "" THEN [err |-> ParsedAs(parsed, _LINE_VARIABLE), heap |-> heap, self |-> 0, session |-> session]
    ELSE CompileMade(heap, session, NewVariable(heap, Tail(parsed.tokens), parsed.tokens[1].s))

\* Session.createVariable(expression) for a string
Session_createVariable(heap, session, expression) == CreateVariableFrom(heap, session, _parseLine(expression))

CreateFunctionFrom(heap, session, parsed) ==
    IF ParsedAs(parsed, _LINE_FUNCTION) # "" THEN [err |-> ParsedAs(parsed, _LINE_FUNCTION), heap |-> heap, self |-> 0, session |-> session]
    ELSE CompileMade(heap, session, NewFunction(heap, Tail(parsed.tokens), parsed.tokens[1].s))

\* Session.createFunction(expression) for a string
Session_createFunction(heap, session, expression) == CreateFunctionFrom(heap, session, _parseLine(expression))

CreateEquationFrom(heap, session, parsed) ==
    IF ParsedAs(parsed, _LINE_EQUATION) # "" THEN [err |-> ParsedAs(parsed, _LINE_EQUATION), heap |-> heap, self |-> 0, session |-> session]
    ELSE CompileMade(heap, session, NewEquation(heap, parsed.tokens))

\* Session.createEquation(expression) for a string
Session_createEquation(heap, session, expression) == CreateEquationFrom(heap, session, _parseLine(expression))

\* Session.setVariable(variable) for an object of the heap
Session_setVariable(heap, session, variable) ==
    IF heap[variable].cls # "Variable" THEN [err |-> "InstantiationError", session |-> session]
    ELSE [err |-> "", session |-> [session EXCEPT !._variables = DictSet(@, heap[variable].name, variable)]]

\* Session.setFunction(function) for an object of the heap
Session_setFunction(heap, session, function) ==
    IF heap[function].cls # "Function" THEN [err |-> "InstantiationError", session |-> session]
    ELSE [err |-> "", session |-> [session EXCEPT !._functions = DictSet(@, <<getArity(heap, function), heap[function].name>>, function)]]

\* Session.clearFunction(name, arity): self._functions.pop((arity, name), None)
Session_clearFunction(session, name, arity) == [session EXCEPT !._functions = DictPop(@, <<arity, name>>)]

\* Session.addEquation(equation) for an object of the heap
Session_addEquation(heap, session, equation) ==
    IF heap[equation].cls # "Equation" THEN [err |-> "InstantiationError", session |-> session]
    ELSE [err |-> "", session |-> [session EXCEPT !._equations = Append(@, equation)]]

(***************************************************************************)
(* The arguments of the API: any Python object                             *)
(***************************************************************************)
\* A Python object as an argument: its type, the characters of a string
\* and the identity of an entity of the heap.
None == [type |-> "NoneType", s |-> <<>>, e |-> 0]
Text(s) == [type |-> "str", s |-> s, e |-> 0]
Instance(heap, e) == [type |-> heap[e].cls, s |-> <<>>, e |-> e]

\* isinstance(expression, basestring)
IsBasestring(expression) == expression.type \in {"str", "unicode"}

\* What a create call raises before it parses anything.
NonString(heap, session) == [err |-> "InstantiationError", heap |-> heap, self |-> 0, session |-> session]

\* Session.createVariable(expression)
CreateVariableCall(heap, session, expression) ==
    IF ~IsBasestring(expression) THEN NonString(heap, session) ELSE Session_createVariable(heap, session, expression.s)

\* Session.createFunction(expression)
CreateFunctionCall(heap, session, expression) ==
    IF ~IsBasestring(expression) THEN NonString(heap, session) ELSE Session_createFunction(heap, session, expression.s)

\* Session.createEquation(expression)
CreateEquationCall(heap, session, expression) ==
    IF ~IsBasestring(expression) THEN NonString(heap, session) ELSE Session_createEquation(heap, session, expression.s)

\* Session.setVariable(variable): type(variable) == Variable
SetVariableCall(heap, session, variable) ==
    IF variable.type # "Variable" THEN [err |-> "InstantiationError", session |-> session]
    ELSE Session_setVariable(heap, session, variable.e)

\* Session.setFunction(function): type(function) == Function
SetFunctionCall(heap, session, function) ==
    IF function.type # "Function" THEN [err |-> "InstantiationError", session |-> session]
    ELSE Session_setFunction(heap, session, function.e)

\* Session.addEquation(equation): type(equation) == Equation
AddEquationCall(heap, session, equation) ==
    IF equation.type # "Equation" THEN [err |-> "InstantiationError", session |-> session]
    ELSE Session_addEquation(heap, session, equation.e)

\* Session.clearVariable(name): the test self._variables.has_key[name]
\* subscripts a method. Python 2 raises TypeError for it; the dict of
\* Python 3 has no has_key and the attribute lookup raises AttributeError.
\* Either way the del statement is not reached.
Session_clearVariable(session, name) ==
    {[err |-> raised, session |-> session] : raised \in {"TypeError", "AttributeError"}}

(***************************************************************************)
(* The callable of Session.extract_equation                                *)
(***************************************************************************)
\* A copy that is the equation itself.
Equation_copy_same(heap, self) == [err |-> "", heap |-> heap, self |-> self]

\* Equation.copy(): Equation(self._tokens)
Equation_copy(heap, self) == NewEquation(heap, heap[self].tokens)

\* The checks of extract_equation on what _parseLine returned, and the
\* Equation that the callable is bound to.
ExtractFrom(heap, parsed) ==
    IF parsed.err # "" THEN [err |-> parsed.err, heap |-> heap, self |-> 0]
    ELSE IF parsed.line_type # _LINE_EQUATION THEN [err |-> "CompilationError", heap |-> heap, self |-> 0]
    ELSE NewEquation(heap, parsed.tokens)

\* Session.extract_equation(input) for a string
Session_extract_equation(heap, input) == ExtractFrom(heap, _parseLine(strip(input)))

\* return equation.evaluate() of the callable, for the copy compiled into
\* made.
EvaluateCopy(made, value) ==
    IF made.err # "" THEN [err |-> made.err, val |-> <<0, 1>>, heap |-> made.heap, session |-> made.session]
    ELSE [err |-> value.err, val |-> value.val, heap |-> value.heap, session |-> made.session]

\* The copy compiled, and None in place of a copy that did not compile.
CopyEvaluated(made) ==
    EvaluateCopy(made, IF made.err # "" THEN Raise(made.err, made.heap, <<>>) ELSE Equation_evaluate(made.heap, made.self, <<>>))

\* _evaluate(equation), the callable that extract_equation returns.
Invocation(heap, session, equation) == CopyEvaluated(CompileMade(heap, session, Equation_copy(heap, equation)))


(***************************************************************************)
(* Inputs                                                                  *)
(***************************************************************************)
\* The number of calls of one run that construct a session from a batch,
\* register an entity or evaluate.
MaxCalls == 3

\* The invocations of one callable of extract_equation.
MaxInvocations == 2
\* The literals of the operator expressions are the digits 2..MaxDigit, the
\* arguments of the calls the digits 0..MaxDigit.
MaxDigit == 3
\* The longest run of minus signs before an operand.
MaxMinus == 2
\* The deepest nesting of a call in its own argument.
MaxDepth == 3

RECURSIVE Join(_, _)
\* sep.join(lines)
Join(lines, sep) ==
    IF lines = <<>> THEN <<>>
    ELSE IF Len(lines) = 1 THEN lines[1]
    ELSE lines[1] \o sep \o Join(Tail(lines), sep)

\* The lists of n distinct members of the list pool, in every order.
Orderings(pool, n) ==
    {[i \in 1..n |-> pool[f[i]]] : f \in {g \in [1..n -> 1..Len(pool)] : \A i, j \in 1..n : i # j => g[i] # g[j]}}

\* The batches of n declarations of pool, in every order.
BatchesOf(pool, n) == {Join(lines, <<";"," ">>) : lines \in Orderings(pool, n)}

\* The batch of src/tests.py line 284 and its two halves.
RecursiveBatch == <<"g"," ","="," ","6","7","q",";"," ","q"," ","="," ","5","g",";"," ","x","(","y",","," ","z",")","="," ","2"," ","x","(","y",","," ","z",")">>
RecursiveVariables == <<"g"," ","="," ","6","7","q",";"," ","q"," ","="," ","5","g">>
RecursiveFunction == <<"x","(","y",","," ","z",")","="," ","2"," ","x","(","y",","," ","z",")">>
CyclicBatches == {RecursiveBatch, RecursiveVariables, RecursiveFunction}

\* A function that divides by zero for the argument 3.
DivisionBatch == <<"g","(","x",")","=","x","/","(","x","-","3",")">>

\* Variables without a reference cycle: a variable, a variable that
\* references it and a variable that references both.
BatchDeclarations == <<<<"a","=","1">>, <<"b","=","a">>, <<"c","=","a","+","b">>>>
PermutedBatches == BatchesOf(BatchDeclarations, Len(BatchDeclarations))

\* A variable and a variable that references it twice.
TwiceDeclarations == <<<<"a","=","1">>, <<"c","=","a","+","a">>>>
TwiceBatches == BatchesOf(TwiceDeclarations, 2)

\* The lines passed to createVariable and createFunction.
Declarations == TwiceDeclarations \o <<DivisionBatch>>

AcyclicBatches == {DivisionBatch} \cup TwiceBatches \cup PermutedBatches

\* A variable whose value is the digit n and an equation that references it
\* twice.
CachedBatch(n) == <<"z","=">> \o <<DigitCharacters[n + 1]>> \o <<";"," ","z","+","z">>
CachedBatches == {CachedBatch(n) : n \in 0..MaxDigit}

\* A variable and an equation that divides by zero.
FailingBatch == <<"a","=","1",";"," ","1","/","0">>

Batches == CyclicBatches \cup AcyclicBatches \cup CachedBatches \cup {FailingBatch}

\* The lines passed to createEquation.
EquationLines ==
    {<<"g">>, <<"x","(","1",","," ","2",")">>, <<"a"," ","+"," ","a">>, <<"g","(","1",")"," ","+"," ","g","(","2",")">>, <<"g","(","3",")">>, <<"g","(","4",")">>}

\* The names looked up in getVariables().
VariableNames == {<<"g">>, <<"c">>}

\* The session of the expressions: the variables and the function g of the
\* tests, a function that references its parameter twice, one that
\* divides by it, one that can return zero and one of two parameters.
ExprBatch == <<"b","=","2",";"," ","x","=","3",";"," ","g","(","a",")","=","a"," ","b",";"," ","h","(","x",")","=","x","+","x",";"," ","r","(","a",")","=","1","/","a",";"," ","s","(","a",")","=","a","-","2",";"," ","d","(","p",",","q",")","=","p","-","q">>

\* The literal of the digit n.
Literal(n) == <<DigitCharacters[n + 1]>>

\* The binary operators of the language.
BinaryOperators == {"^", "*", "/", "\\", "%", "+", "-", "<", ">"}

\* x op1 y op2 z, and the same with one pair in parentheses
PrecedenceLine(x, op1, y, op2, z) == Literal(x) \o <<" ", op1, " ">> \o Literal(y) \o <<" ", op2, " ">> \o Literal(z)
LeftGrouped(x, op1, y, op2, z) == <<"(">> \o Literal(x) \o <<" ", op1, " ">> \o Literal(y) \o <<")", " ", op2, " ">> \o Literal(z)
RightGrouped(x, op1, y, op2, z) == Literal(x) \o <<" ", op1, " ", "(">> \o Literal(y) \o <<" ", op2, " ">> \o Literal(z) \o <<")">>

PrecedenceLines ==
    {PrecedenceLine(x, op1, y, op2, z) : x \in 2..MaxDigit, y \in 2..MaxDigit, z \in 2..MaxDigit, op1 \in BinaryOperators, op2 \in BinaryOperators}
LeftGroupedLines ==
    {LeftGrouped(x, op1, y, op2, z) : x \in 2..MaxDigit, y \in 2..MaxDigit, z \in 2..MaxDigit, op1 \in BinaryOperators, op2 \in BinaryOperators}
RightGroupedLines ==
    {RightGrouped(x, op1, y, op2, z) : x \in 2..MaxDigit, y \in 2..MaxDigit, z \in 2..MaxDigit, op1 \in BinaryOperators, op2 \in BinaryOperators}

\* The expressions of the specification's examples of precedence.
PrecedenceExamples == {<<"2"," ","+"," ","3"," ","*"," ","4">>, <<"(","2","+","3",")","*","4">>, <<"2","^","3","^","2">>}

\* n minus signs
Minuses(n) == [i \in 1..n |-> "-"]

\* x op y with n minus signs before x and m before y
NegationLine(n, x, op, m, y) == Minuses(n) \o Literal(x) \o <<" ", op, " ">> \o Minuses(m) \o Literal(y)

NegationLines ==
    {NegationLine(n, x, op, m, y) : n \in 0..MaxMinus, m \in 0..MaxMinus, x \in 2..MaxDigit, y \in 2..MaxDigit, op \in BinaryOperators}
    \cup {<<"-","2","^","2">>}

\* The four kinds of factor, as the first and as the second of a pair, with
\* their values in the session of ExprBatch.
FirstFactors == << <<<<"2">>, 2>>, <<<<"x">>, 3>>, <<<<"g","(","2",")">>, 4>>, <<<<"(","2",")">>, 2>> >>
SecondFactors == << <<<<"3">>, 3>>, <<<<"b">>, 2>>, <<<<"s","(","3",")">>, 1>>, <<<<"(","3",")">>, 3>> >>

\* A factor, a space and a factor
FactorPair(i, j) == FirstFactors[i][1] \o <<" ">> \o SecondFactors[j][1]

\* The pairs of the specification's examples of implicit multiplication.
FactorExamples == {<<"2"," ","3">>, <<"2","(","3",")">>, <<"(","2",")","(","3",")">>, <<"(","2",")","3">>, <<"(","2",")","x">>}

FactorLines == {FactorPair(i, j) : i \in 1..Len(FirstFactors), j \in 1..Len(SecondFactors)} \cup FactorExamples

\* The functions of one parameter of ExprBatch.
FunctionNames == {"g", "h", "r", "s"}

RECURSIVE Nested(_, _, _)
\* f(f(...f(v)...)), with depth calls of f
Nested(f, v, depth) == IF depth = 0 THEN Literal(v) ELSE <<f, "(">> \o Nested(f, v, depth - 1) \o <<")">>

NestedLines == {Nested(f, v, depth) : f \in FunctionNames, v \in 0..MaxDigit, depth \in 1..MaxDepth}

\* d(v,w)
CallOfTwo(v, w) == <<"d","(">> \o Literal(v) \o <<",">> \o Literal(w) \o <<")">>

CallLines == {CallOfTwo(v, w) : v \in 0..MaxDigit, w \in 0..MaxDigit}

\* A factor, a minus sign, n more minus signs and a factor, with nothing
\* between them
SubtractionLine(i, n, j) == FirstFactors[i][1] \o <<"-">> \o Minuses(n) \o SecondFactors[j][1]

\* n minus signs and a factor, alone and in parentheses
NegatedFactor(n, j) == Minuses(n) \o SecondFactors[j][1]
NegatedGroup(n, j) == <<"(">> \o NegatedFactor(n, j) \o <<")">>

\* The expressions of the specification's examples of negation, which are
\* those of src/tests.py lines 61, 62, 63 and 73.
SignExamples == {<<"1"," ","-"," ","-","-","-","1">>, <<"1"," ","-"," ","-","-","1">>, <<"1","0"," ","-"," ","-","3","3">>, <<"-","1","-","(","-","(","-","1",")",")">>}

SignLines ==
    {SubtractionLine(i, n, j) : i \in 1..Len(FirstFactors), n \in 0..(MaxMinus + 1), j \in 1..Len(SecondFactors)}
    \cup {NegatedFactor(n, j) : n \in 0..(MaxMinus + 1), j \in 1..Len(SecondFactors)}
    \cup {NegatedGroup(n, j) : n \in 0..(MaxMinus + 1), j \in 1..Len(SecondFactors)}
    \cup SignExamples

\* The operators of the division family.
DivisionOperators == {"/", "\\", "%"}

\* The right operands that are zero: the literals 0 and 0.0, a difference,
\* the call s(2) of s(a)=a-2 and the product of b and 0 in parentheses.
ZeroOperands == <<<<"0">>, <<"0",".","0">>, <<"(","3","-","3",")">>, <<"s","(","2",")">>, <<"(","b"," ","0",")">>>>

\* x op y for a digit y, and x op z for the z-th of the zero operands
DivisionLine(x, op, y) == Literal(x) \o <<op>> \o Literal(y)
DivisionByZeroLine(x, op, z) == Literal(x) \o <<" ", op, " ">> \o ZeroOperands[z]

\* The expressions of the specification's examples of division, which are
\* those of src/tests.py lines 77 to 79 and 211.
DivisionExamples == {<<"1","0","/","5">>, <<"1","0","/","3">>, <<"1","0","\\","3">>, <<"1","0","/","0">>, <<"1","0","\\","0">>, <<"6","6"," ","/"," ","0">>}

DivisionLines ==
    {DivisionLine(x, op, y) : x \in 0..MaxDigit, y \in 0..MaxDigit, op \in DivisionOperators}
    \cup {DivisionByZeroLine(x, op, z) : x \in 0..MaxDigit, z \in 1..Len(ZeroOperands), op \in DivisionOperators}
    \cup DivisionExamples

\* x op y z: two literals that only whitespace separates
JuxtaposedLine(x, op, y, z) == Literal(x) \o <<" ", op, " ">> \o Literal(y) \o <<" ">> \o Literal(z)

\* The expression of src/tests.py line 201.
JuxtaposedExample == <<"5"," ","+"," ","6","6"," ","2"," ","+"," ","1","2">>

JuxtaposedLines ==
    {JuxtaposedLine(x, op, y, z) : x \in 2..MaxDigit, y \in 2..MaxDigit, z \in 2..MaxDigit, op \in BinaryOperators}
    \cup {JuxtaposedExample}

\* The expression of src/tests.py line 280, an empty group in a group and
\* as the argument of a call.
EmptyGroups == {<<"(",")">>, <<"(","(",")",")">>, <<"g","(","(",")",")">>}

\* An empty group as an operand: to the right and to the left of an
\* operator, after a literal and after a minus sign.
EmptyOperands == {<<"5"," ","+"," ","(",")">>, <<"(",")"," ","+"," ","5">>, <<"2"," ","(",")">>, <<"-","(",")">>}

\* Lines that do not alternate factors and operators, by what is wrong
\* with them, in the line, in a group and in an argument of a call. The
\* first of each set is of src/tests.py lines 206, 226, 300 and 310, and
\* 5, + 66 of line 315.
ConsecutiveOperatorLines == {<<"5"," ","-","+"," ","6"," ","+"," ","8">>, <<"5"," ","+"," ","*"," ","6">>, <<"2"," ","(","3"," ","*"," ","/"," ","4",")">>, <<"d","(","2",","," ","3"," ","*"," ","/"," ","4",")">>}
TrailingOperatorLines == {<<"6"," ","+"," ","(","5","5",")"," ","+"," ","1","7"," ","-">>, <<"5"," ","+">>, <<"5"," ","+"," ","(","3"," ","*",")">>, <<"g","(","2"," ","+",")">>}
UnclosedLines == {<<"6"," ","+"," ","(","(","5","5",")"," ","+"," ","1","7">>, <<"(","5">>, <<"5"," ","+"," ","(","3"," ","+"," ","(","2",")">>, <<"x"," ","+"," ","(","b">>}
UnmatchedLines == {<<"5"," ","+"," ",")">>, <<"5"," ","+"," ","(","3",")",")">>, <<"5",","," ","+"," ","6","6">>, <<"(","5",",","6",")">>, <<"5"," ",",">>}
LeadingOperatorLines == {<<"*"," ","5">>, <<"(","*"," ","5",")">>}

SyntaxErrorLines ==
    ConsecutiveOperatorLines \cup TrailingOperatorLines \cup UnclosedLines \cup UnmatchedLines \cup LeadingOperatorLines

\* The lines passed to createEquation in the session of ExprBatch.
\* Sums of two calls that both raise when they are evaluated: r(0) divides
\* by zero and g(()) has an argument without content.
FailingOperands == {<<"r","(","0",")"," ","+"," ","g","(","(",")",")">>, <<"g","(","(",")",")"," ","+"," ","r","(","0",")">>}

ExprLines ==
    PrecedenceLines \cup LeftGroupedLines \cup RightGroupedLines \cup PrecedenceExamples
    \cup NegationLines \cup FactorLines \cup NestedLines \cup CallLines
    \cup JuxtaposedLines \cup SignLines \cup DivisionLines
    \cup EmptyGroups \cup EmptyOperands \cup SyntaxErrorLines \cup FailingOperands

(***************************************************************************)
(* The interpreter and its caller                                          *)
(***************************************************************************)
VARIABLES heap, session, input, declared, held, outcome, evaluations, extracted

vars == <<heap, session, input, declared, held, outcome, evaluations, extracted>>

\* What the caller saw of a call: the method, the text it was given, the
\* exception raised ("" when it returned) and what it returned.
Outcome(op, line, err, val, values, results) ==
    [op |-> op, line |-> line, err |-> err, val |-> val, values |-> values, results |-> results]

Raised(op, line, err) == Outcome(op, line, err, <<0, 1>>, <<>>, <<>>)

Returned(op, line, val) == Outcome(op, line, "", val, <<>>, <<>>)

\* The caller holds no entity.
Nothing == [self |-> 0, line |-> <<>>]

\* No callable was taken from the session yet.
NoCallable == [self |-> 0, line |-> <<>>, invoked |-> 0]

\* The constructor raised: there is no Session to call.
NoSession == outcome.op = "Session" /\ outcome.err # ""

\* The calls made so far that count against MaxCalls.
Calls == Len(declared) + evaluations + (IF input = <<>> THEN 0 ELSE 1)

\* session = calc.Session(), src/tests.py line 27
Init ==
    /\ heap = <<>>
    /\ session = EmptySession(<<>>, <<>>)
    /\ input = <<>>
    /\ declared = <<>>
    /\ held = Nothing
    /\ outcome = Returned("Session", <<>>, <<0, 1>>)
    /\ evaluations = 0
    /\ extracted = NoCallable

\* The state the constructor leaves.
Constructed(text, made) ==
    /\ heap' = made.heap
    /\ session' = made.session
    /\ input' = text
    /\ outcome' = Raised("Session", text, made.err)
    /\ UNCHANGED <<declared, held, evaluations, extracted>>

\* session = calc.Session(text), in place of the empty session
Construct ==
    /\ outcome.op = "Session" /\ input = <<>>
    /\ \E text \in Batches : \E made \in Session_init(<<>>, text, <<>>, <<>>) : Constructed(text, made)

\* The step of a create call that returns the entity made, or raises.
Create(op, line, made) ==
    /\ ~NoSession
    /\ held = Nothing
    /\ Calls < MaxCalls
    /\ heap' = made.heap
    /\ session' = made.session
    /\ held' = IF made.err = "" THEN [self |-> made.self, line |-> line] ELSE Nothing
    /\ outcome' = Raised(op, line, made.err)
    /\ UNCHANGED <<input, declared, evaluations, extracted>>

\* held = session.createEquation(line)
CreateEquation ==
    \E line \in EquationLines : Create("createEquation", line, Session_createEquation(heap, session, line))

\* held = session.createVariable(line)
CreateVariable ==
    \E n \in 1..Len(Declarations) : Create("createVariable", Declarations[n], Session_createVariable(heap, session, Declarations[n]))

\* held = session.createFunction(line)
CreateFunction ==
    \E n \in 1..Len(Declarations) : Create("createFunction", Declarations[n], Session_createFunction(heap, session, Declarations[n]))

\* The step of a set or add call on the entity held.
Register(op, done) ==
    /\ held # Nothing
    /\ Calls < MaxCalls
    /\ session' = done.session
    /\ declared' = IF done.err = "" THEN Append(declared, held.line) ELSE declared
    /\ held' = IF done.err = "" THEN Nothing ELSE held
    /\ outcome' = Raised(op, held.line, done.err)
    /\ UNCHANGED <<heap, input, evaluations, extracted>>

\* session.setVariable(held)
SetVariable == held # Nothing /\ Register("setVariable", Session_setVariable(heap, session, held.self))

\* session.setFunction(held)
SetFunction == held # Nothing /\ Register("setFunction", Session_setFunction(heap, session, held.self))

\* session.addEquation(held)
AddEquation == held # Nothing /\ Register("addEquation", Session_addEquation(heap, session, held.self))

\* The step of an evaluate call, without arguments, of an Equation or a
\* Variable.
Evaluated(line, value) ==
    /\ Calls < MaxCalls
    /\ heap' = value.heap
    /\ held' = Nothing
    /\ outcome' = Outcome("evaluate", line, value.err, value.val, <<>>, <<>>)
    /\ evaluations' = evaluations + 1
    /\ UNCHANGED <<session, input, declared, extracted>>

\* held.evaluate(), as in session.createEquation(line).evaluate()
EvaluateHeld ==
    /\ held # Nothing
    /\ heap[held.self].cls \in {"Equation", "Variable"}
    /\ Evaluated(held.line, MethodEvaluate(heap, held.self, <<>>))

\* session.getVariables()[name].evaluate()
EvaluateVariable ==
    \E name \in VariableNames :
        /\ ~NoSession
        /\ held = Nothing
        /\ DictHas(session._variables, name)
        /\ Evaluated(name, MethodEvaluate(heap, DictSubscript(session._variables, name).val, <<>>))

\* The step of session.evaluate().
SessionEvaluated(done) ==
    /\ heap' = done.heap
    /\ outcome' = Outcome("Session.evaluate", <<>>, done.err, <<0, 1>>, done.values, done.results)
    /\ evaluations' = evaluations + 1
    /\ UNCHANGED <<session, input, declared, held, extracted>>

\* session.evaluate()
SessionEvaluate ==
    /\ ~NoSession
    /\ held = Nothing
    /\ Calls < MaxCalls
    /\ \E done \in Session_evaluate(heap, session) : SessionEvaluated(done)

Next ==
    \/ Construct
    \/ CreateEquation
    \/ CreateVariable
    \/ CreateFunction
    \/ SetVariable
    \/ SetFunction
    \/ AddEquation
    \/ EvaluateHeld
    \/ EvaluateVariable
    \/ SessionEvaluate

Spec == Init /\ [][Next]_vars

\* session = calc.Session(ExprBatch)
InitExpr ==
    \E made \in Session_init(<<>>, ExprBatch, <<>>, <<>>) :
        /\ heap = made.heap
        /\ session = made.session
        /\ input = ExprBatch
        /\ declared = <<>>
        /\ held = Nothing
        /\ outcome = Raised("Session", ExprBatch, made.err)
        /\ evaluations = 0
        /\ extracted = NoCallable

\* held = session.createEquation(line), the first call on the session
CompileExpression ==
    /\ outcome.op = "Session"
    /\ \E line \in ExprLines : Create("createEquation", line, Session_createEquation(heap, session, line))

NextExpr ==
    \/ CompileExpression
    \/ EvaluateHeld

\* A session that compiles one expression and evaluates it.
SpecExpr == InitExpr /\ [][NextExpr]_vars

(***************************************************************************)
(* A session with lookup handlers                                          *)
(***************************************************************************)
\* The variables a and b and the functions g of one and of two parameters
\* of src/tests.py lines 19 and 20, and two queued equations, the second
\* with a name that only the lookup handler knows.
NamesBatch == <<"a","=","1",";"," ","b","=","2",";"," ","g","(","a",")","=","a"," ","b",";"," ","g","(","x",","," ","y",")","=","x","+","y",";"," ","g","(","3",")",";"," ","v","+","b">>

\* library = calc.Session(); successor = library.createFunction("t(n)=n+1"):
\* the object that the function lookup handler returns.
Library == Session_createFunction(<<>>, EmptySession(<<>>, <<>>), <<"t","(","n",")","=","n","+","1">>)

\* What the variable lookup handler returns: nothing for any name (no
\* handler), a value for v, or values for v, for the name e of a builtin
\* and for the name a of a variable of the session.
NoVariables == <<>>
KnownVariable == <<[k |-> <<"v">>, v |-> Whole(7)]>>
KnownVariables == <<[k |-> <<"v">>, v |-> Whole(7)], [k |-> <<"e">>, v |-> Whole(9)], [k |-> <<"a">>, v |-> Whole(5)]>>

\* What the function lookup handler returns: nothing, or the successor
\* function for (1, t) and for the key (1, abs) of a builtin.
NoFunctions == <<>>
KnownFunctions == <<[k |-> <<1, <<"t">>>>, v |-> Library.self], [k |-> <<1, <<"a","b","s">>>>, v |-> Library.self]>>

\* The pairs of handlers of the sessions.
Handlers == {<<NoVariables, NoFunctions>>, <<KnownVariable, NoFunctions>>, <<KnownVariables, KnownFunctions>>}

\* The value the variable lookup handler returns for v after the state
\* behind it has changed.
Changed(missing) == [i \in 1..Len(missing) |-> IF missing[i].k = <<"v">> THEN [k |-> <<"v">>, v |-> Whole(8)] ELSE missing[i]]

\* The lines passed to createEquation, createVariable and createFunction.
NameLines ==
    {<<"g","(","3",")">>, <<"g","(","-","3",")">>, <<"g","(","1",","," ","3",")">>, <<"g","(","1",","," ","2",","," ","3",")">>, <<"g"," ","+"," ","a">>, <<"e"," ","+"," ","v">>, <<"w">>, <<"a","b","s","(","-","3",")">>, <<"t","(","1",")">>}
NameVariables == {<<"e","=","3">>, <<"g","=","4">>}
NameFunctions == {<<"a","b","s","(","n",")","=","n","+","2">>, <<"g","(","p",","," ","q",","," ","r",")","=","p","+","q","+","r">>}

\* The keys passed to clearFunction.
ClearedFunctions == {<<<<"g">>, 1>>, <<<<"g">>, 3>>}

\* session = calc.Session(NamesBatch, variable_lookup_handler, function_lookup_handler)
InitNames ==
    \E handlers \in Handlers :
        \E made \in Session_init(Library.heap, NamesBatch, handlers[1], handlers[2]) :
            /\ heap = made.heap
            /\ session = made.session
            /\ input = NamesBatch
            /\ declared = <<>>
            /\ held = Nothing
            /\ outcome = Raised("Session", NamesBatch, made.err)
            /\ evaluations = 0
            /\ extracted = NoCallable

\* held = session.createEquation(line)
CompileName ==
    \E line \in NameLines : Create("createEquation", line, Session_createEquation(heap, session, line))

\* held = session.createVariable(line)
DeclareVariable ==
    \E line \in NameVariables : Create("createVariable", line, Session_createVariable(heap, session, line))

\* held = session.createFunction(line)
DeclareFunction ==
    \E line \in NameFunctions : Create("createFunction", line, Session_createFunction(heap, session, line))

\* The entry of declared for a call of clearFunction: name/arity.
Cleared(key) == key[1] \o <<"/">> \o Literal(key[2])

\* session.clearFunction(name, arity)
ClearFunction ==
    /\ ~NoSession
    /\ held = Nothing
    /\ Calls < MaxCalls
    /\ \E key \in ClearedFunctions :
        /\ session' = Session_clearFunction(session, key[1], key[2])
        /\ declared' = Append(declared, Cleared(key))
        /\ outcome' = Raised("clearFunction", Cleared(key), "")
    /\ UNCHANGED <<heap, input, held, evaluations, extracted>>

\* The state behind the variable lookup handler changes, once, after a
\* call of session.evaluate().
ChangeResolver ==
    /\ outcome.op = "Session.evaluate"
    /\ Changed(session._variables.missing) # session._variables.missing
    /\ session' = [session EXCEPT !._variables.missing = Changed(@)]
    /\ outcome' = Raised("handler", <<"v">>, "")
    /\ UNCHANGED <<heap, input, declared, held, evaluations, extracted>>

NextNames ==
    \/ CompileName
    \/ DeclareVariable
    \/ DeclareFunction
    \/ SetVariable
    \/ SetFunction
    \/ AddEquation
    \/ ClearFunction
    \/ ChangeResolver
    \/ EvaluateHeld
    \/ SessionEvaluate

\* A session with lookup handlers, whose namespaces change.
SpecNames == InitNames /\ [][NextNames]_vars

(***************************************************************************)
(* The calls of the API with any argument                                  *)
(***************************************************************************)
\* A variable and a function whose body references it.
ApiBatch == <<"a","=","1",";"," ","f","(","x",")","=","x","+","a">>

\* The lines of the three kinds.
ApiVariables == {<<"a","=","2">>, <<"c","=","a","+","1">>}
ApiFunctions == {<<"f","(","x",")","=","x","+","2">>}
ApiEquations == {<<"a"," ","+"," ","f","(","2",")">>}
ApiLines == ApiVariables \cup ApiFunctions \cup ApiEquations

\* The arguments of a create call: no text (None), the empty text, a text
\* of whitespace and a line of each kind. The first three of
\* src/tests.py lines 231 to 265.
CreateArguments == {None, Text(<<>>), Text(<<" ">>)} \cup {Text(line) : line \in ApiLines}

\* The arguments of a set or add call: None, the text of a name and the
\* entity held.
RegisterArguments == {None, Text(<<"a">>)} \cup (IF held = Nothing THEN {} ELSE {Instance(heap, held.self)})

\* How outcome names an argument: a text by its characters, an entity by
\* the line it was made from, any other object by its type.
Named(argument) ==
    IF argument.type = "str" THEN argument.s
    ELSE IF argument.e # 0 THEN held.line
    ELSE <<argument.type>>

\* session = calc.Session(ApiBatch)
InitApi ==
    \E made \in Session_init(<<>>, ApiBatch, <<>>, <<>>) :
        /\ heap = made.heap
        /\ session = made.session
        /\ input = ApiBatch
        /\ declared = <<>>
        /\ held = Nothing
        /\ outcome = Raised("Session", ApiBatch, made.err)
        /\ evaluations = 0
        /\ extracted = NoCallable

\* held = session.createVariable(argument)
CreateVariableOf ==
    \E argument \in CreateArguments : Create("createVariable", Named(argument), CreateVariableCall(heap, session, argument))

\* held = session.createFunction(argument)
CreateFunctionOf ==
    \E argument \in CreateArguments : Create("createFunction", Named(argument), CreateFunctionCall(heap, session, argument))

\* held = session.createEquation(argument)
CreateEquationOf ==
    \E argument \in CreateArguments : Create("createEquation", Named(argument), CreateEquationCall(heap, session, argument))

\* The step of a set or add call on any argument.
RegisterOf(op, argument, done) ==
    /\ Calls < MaxCalls
    /\ session' = done.session
    /\ declared' = IF done.err = "" THEN Append(declared, Named(argument)) ELSE declared
    /\ held' = IF done.err = "" THEN Nothing ELSE held
    /\ outcome' = Raised(op, Named(argument), done.err)
    /\ UNCHANGED <<heap, input, evaluations, extracted>>

\* session.setVariable(argument)
SetVariableOf ==
    \E argument \in RegisterArguments : RegisterOf("setVariable", argument, SetVariableCall(heap, session, argument))

\* session.setFunction(argument)
SetFunctionOf ==
    \E argument \in RegisterArguments : RegisterOf("setFunction", argument, SetFunctionCall(heap, session, argument))

\* session.addEquation(argument)
AddEquationOf ==
    \E argument \in RegisterArguments : RegisterOf("addEquation", argument, AddEquationCall(heap, session, argument))

\* The names passed to clearVariable: one that the session has and one that
\* it has not.
ClearedVariables == {<<"a">>, <<"q">>}

\* session.clearVariable(name)
ClearVariable ==
    /\ ~NoSession
    /\ \E name \in ClearedVariables : \E done \in Session_clearVariable(session, name) :
        /\ session' = done.session
        /\ outcome' = Raised("clearVariable", name, done.err)
    /\ UNCHANGED <<heap, input, declared, held, evaluations, extracted>>

NextApi ==
    \/ ClearVariable
    \/ CreateVariableOf
    \/ CreateFunctionOf
    \/ CreateEquationOf
    \/ SetVariableOf
    \/ SetFunctionOf
    \/ AddEquationOf
    \/ SessionEvaluate

\* A session whose API is called with any argument.
SpecApi == InitApi /\ [][NextApi]_vars

(***************************************************************************)
(* The callable of extract_equation in a session that changes              *)
(***************************************************************************)
\* The functions that clearFunction is called on in this session.
ApiCleared == {<<<<"f">>, 1>>}

\* session.clearFunction(name, arity)
ClearFunctionOf ==
    /\ ~NoSession
    /\ held = Nothing
    /\ Calls < MaxCalls
    /\ \E key \in ApiCleared :
        /\ session' = Session_clearFunction(session, key[1], key[2])
        /\ declared' = Append(declared, Cleared(key))
        /\ outcome' = Raised("clearFunction", Cleared(key), "")
    /\ UNCHANGED <<heap, input, held, evaluations, extracted>>

\* The lines passed to extract_equation: an equation on a variable of the
\* session, one on a function, one on a variable the session has not yet,
\* and a declaration of each kind.
ExtractedEquations == {<<" ","a"," ","+"," ","1"," ">>, <<"f","(","2",")">>, <<"c">>}
ExtractLines == ExtractedEquations \cup {<<"a","=","2">>, <<"f","(","x",")","=","x","+","2">>}

\* extracted = session.extract_equation(line)
ExtractEquation ==
    /\ ~NoSession
    /\ held = Nothing
    /\ extracted = NoCallable
    /\ \E line \in ExtractLines :
        LET made == Session_extract_equation(heap, line)
        IN  /\ heap' = made.heap
            /\ extracted' = IF made.err = "" THEN [self |-> made.self, line |-> line, invoked |-> 0] ELSE NoCallable
            /\ outcome' = Raised("extract_equation", line, made.err)
    /\ UNCHANGED <<session, input, declared, held, evaluations>>

\* The step of an invocation of the callable.
Invoked(done) ==
    /\ heap' = done.heap
    /\ session' = done.session
    /\ extracted' = [extracted EXCEPT !.invoked = @ + 1]
    /\ outcome' = Outcome("invoke", extracted.line, done.err, done.val, <<>>, <<>>)
    /\ UNCHANGED <<input, declared, held, evaluations>>

\* extracted()
Invoke ==
    /\ held = Nothing
    /\ extracted # NoCallable
    /\ extracted.invoked < MaxInvocations
    /\ Invoked(Invocation(heap, session, extracted.self))

\* held = session.createVariable(line)
CreateApiVariable ==
    \E line \in ApiVariables : Create("createVariable", line, Session_createVariable(heap, session, line))

\* held = session.createFunction(line)
CreateApiFunction ==
    \E line \in ApiFunctions : Create("createFunction", line, Session_createFunction(heap, session, line))

\* The variables and functions that the session holds.
Registered ==
    {session._variables.items[i].v : i \in 1..Len(session._variables.items)}
    \cup {session._functions.items[i].v : i \in 1..Len(session._functions.items)}

\* The step of a compile call of a registered entity against the dicts of
\* the session ns: those of the caller's session, or those of an empty one.
Recompiled(entity, ns, done) ==
    /\ heap' = done.heap
    /\ session' = IF ns = session THEN Handed(session, done) ELSE session
    /\ outcome' = Raised("compile", heap[entity].name, done.err)
    /\ UNCHANGED <<input, declared, held, evaluations, extracted>>

\* entity.compile(functions, variables) of an entity that was compiled
\* when it was created
Recompile ==
    /\ ~NoSession
    /\ held = Nothing
    /\ \E entity \in Registered : \E ns \in {session, EmptySession(<<>>, <<>>)} :
        Recompiled(entity, ns, MethodCompile(heap, entity, ns._functions, ns._variables))

NextExtract ==
    \/ ExtractEquation
    \/ Invoke
    \/ CreateApiVariable
    \/ CreateApiFunction
    \/ SetVariable
    \/ SetFunction
    \/ ClearFunctionOf
    \/ Recompile

\* A session whose namespaces change between the invocations of a callable.
SpecExtract == InitApi /\ [][NextExtract]_vars


(***************************************************************************)
(* Properties of the sessions of Spec                                      *)
(***************************************************************************)
\* The lines whose evaluation enters the reference cycle of a batch: the
\* variable g of "g = 67q; q = 5g" and a call of x of "x(y, z)= 2 x(y, z)".
CyclicLines(batch) ==
    (IF batch \in {RecursiveBatch, RecursiveVariables} THEN {<<"g">>} ELSE {})
    \cup (IF batch \in {RecursiveBatch, RecursiveFunction} THEN {<<"x","(","1",","," ","2",")">>} ELSE {})

\* C1: in a session built from a batch with a reference cycle, the
\* constructor and createEquation succeed (compiling reports no cycle), and
\* every evaluation that enters the cycle raises RecursionError: the
\* equation g, the variable g, every call x(1, 2), the first as the later
\* ones, and Session.evaluate when the cycle is among the variables.
C1_CycleRaisesRecursionError ==
    input \in CyclicBatches =>
        /\ outcome.op = "Session" => outcome.err = ""
        /\ (outcome.op = "createEquation" /\ outcome.line \in CyclicLines(input)) => outcome.err = ""
        /\ (outcome.op = "evaluate" /\ outcome.line \in CyclicLines(input)) => outcome.err = "RecursionError"
        /\ (outcome.op = "Session.evaluate" /\ input # RecursiveFunction) => outcome.err = "RecursionError"

\* The second call of x(1, 2) in the session of the recursive batch raised
\* RecursionError.
C1_SecondCallRaised ==
    /\ input = RecursiveBatch
    /\ outcome.op = "evaluate"
    /\ outcome.line = <<"x","(","1",","," ","2",")">>
    /\ outcome.err = "RecursionError"
    /\ evaluations = 2

\* C2: in a session without a reference cycle, evaluating an equation that
\* references the variable a twice, a + a, or calls the function g twice,
\* g(1) + g(2), does not raise RecursionError.
C2_SiblingsRaiseNoRecursionError ==
    (input \notin CyclicBatches /\ outcome.op = "evaluate" /\ outcome.line \in {<<"a"," ","+"," ","a">>, <<"g","(","1",")"," ","+"," ","g","(","2",")">>})
        => outcome.err # "RecursionError"

\* The Parameter has no cached value and no bound expression.
Unbound(object) == object.computedNone /\ object.equationNone

\* C4: after an evaluation that raised, every Parameter has no cached
\* value and no bound expression, and in the session of g(x)=x/(x-3) the
\* call g(4) returns 4, whatever was called before.
C4_ParametersUnboundAfterError ==
    /\ (outcome.op = "evaluate" /\ outcome.err # "") =>
            \A i \in 1..Len(heap) : heap[i].cls = "Parameter" => Unbound(heap[i])
    /\ (input = DivisionBatch /\ declared = <<>> /\ outcome.op = "evaluate" /\ outcome.line = <<"g","(","4",")">>) =>
            (outcome.err = "" /\ outcome.val = Whole(4))

\* C6: for every order of the declarations a=1, b=a, c=a+b in the batch,
\* the constructor succeeds and Session.evaluate returns a=1, b=1, c=2.
C6_DeclarationOrderIsFree ==
    (declared = <<>> /\ input \in PermutedBatches) =>
        /\ outcome.op = "Session" => outcome.err = ""
        /\ outcome.op = "Session.evaluate" =>
                /\ outcome.err = ""
                /\ outcome.values = << <<<<"a">>, Whole(1)>>, <<<<"b">>, Whole(1)>>, <<<<"c">>, Whole(2)>> >>

\* The session holds the declarations a=1 and c=a+a and nothing else: it
\* was constructed from a batch of the two, or the two were registered in
\* dependency order in an empty session.
HoldsTwiceDeclarations ==
    \/ input \in TwiceBatches /\ declared = <<>>
    \/ input = <<>> /\ declared = TwiceDeclarations

\* C7: Session.evaluate returns the same pairs, a=1 and c=2, and the same
\* (empty) list of results in the session constructed from a batch of the
\* declarations a=1 and c=a+a and in the session in which the two were
\* registered with createVariable and setVariable in dependency order.
C7_BatchAndIncrementalAgree ==
    (HoldsTwiceDeclarations /\ outcome.op = "Session.evaluate") =>
        /\ outcome.err = ""
        /\ outcome.values = << <<<<"a">>, Whole(1)>>, <<<<"c">>, Whole(2)>> >>
        /\ outcome.results = <<>>

(***************************************************************************)
(* Properties of the expressions of SpecExpr                               *)
(***************************************************************************)
\* What the evaluation returned or raised.
Result == [err |-> outcome.err, val |-> outcome.val]

Value(v) == [err |-> "", val |-> v]

\* The session of ExprBatch as the constructor leaves it.
Constructed_ExprBatch == CHOOSE made \in Session_init(<<>>, ExprBatch, <<>>, <<>>) : TRUE

\* The Function of one parameter named f.
FunctionNamed(f) == DictSubscript(Constructed_ExprBatch.session._functions, <<1, <<f>>>>).val

\* f applied to the value of result.
ApplyTo(f, result) ==
    IF result.err # "" THEN result
    ELSE Function_evaluate(result.heap, FunctionNamed(f), <<NumberArgument(result.val)>>, <<>>)

RECURSIVE Iterate(_, _, _)
\* f applied depth times, each time to the value of the call before,
\* starting from the number v.
Iterate(f, v, depth) ==
    IF depth = 0 THEN Return(Whole(v), Constructed_ExprBatch.heap, <<>>)
    ELSE ApplyTo(f, Iterate(f, v, depth - 1))

\* C3: the equation g(g(g(2))) evaluates to 16; an equation that nests the
\* calls of a function f of one parameter, f(f(v)) and f(f(f(v))),
\* evaluates to what f returns for the value of the inner call (and raises
\* what the inner call or that application raises); for g(a) = a b with
\* b = 2 this is v doubled once per call.
C3_CallOnItsOwnResult ==
    outcome.op = "evaluate" =>
        /\ outcome.line = <<"g","(","g","(","g","(","2",")",")",")">> => Result = Value(Whole(16))
        /\ \A f \in FunctionNames, v \in 0..MaxDigit, depth \in 1..MaxDepth :
                outcome.line = Nested(f, v, depth) =>
                    /\ outcome.err = Iterate(f, v, depth).err
                    /\ outcome.val = Iterate(f, v, depth).val
                    /\ f = "g" => Result = Value(Whole(v * 2 ^ depth))

\* g(g(g(2))) was evaluated to 16.
C3_NestedCallEvaluated ==
    outcome.op = "evaluate" /\ outcome.line = <<"g","(","g","(","g","(","2",")",")",")">> /\ Result = Value(Whole(16))

\* C5: a call h(v) of h(x) = x + x returns v + v, for v = 0 too; a call
\* d(v,w) of d(p,q) = p - q returns v - w; and after a call that returned,
\* every Parameter has no cached value and no bound expression.
C5_ParametersYieldArgumentValues ==
    outcome.op = "evaluate" =>
        /\ \A v \in 0..MaxDigit : outcome.line = Nested("h", v, 1) => Result = Value(Whole(v + v))
        /\ \A v, w \in 0..MaxDigit : outcome.line = CallOfTwo(v, w) => Result = Value(Whole(v - w))
        /\ outcome.err = "" => \A i \in 1..Len(heap) : heap[i].cls = "Parameter" => Unbound(heap[i])

\* x with n minus signs before it
Signed(n, x) == IF n % 2 = 0 THEN Whole(x) ELSE Whole(0 - x)

\* C8: -2^2 evaluates to 4 and, for every binary operator op, an
\* expression x op y with minus signs before x and before y evaluates to
\* op applied to the negated operands.
C8_NegationBindsTightest ==
    outcome.op = "evaluate" =>
        /\ outcome.line = <<"-","2","^","2">> => Result = Value(Whole(4))
        /\ \A n \in 0..MaxMinus, m \in 0..MaxMinus, x \in 2..MaxDigit, y \in 2..MaxDigit, op \in BinaryOperators :
                outcome.line = NegationLine(n, x, op, m, y) => Result = ApplyOperator(op, Signed(n, x), Signed(m, y))

\* The precedence classes of the binary operators: ^ above * / \ % above
\* + - above < >.
PrecedenceClass(op) ==
    CASE op = "^" -> 3
      [] op \in {"*", "/", "\\", "%"} -> 2
      [] op \in {"+", "-"} -> 1
      [] op \in {"<", ">"} -> 0

\* op applied to two results; an operand that raised, raises.
Operate(op, left, right) ==
    IF left.err # "" THEN left
    ELSE IF right.err # "" THEN right
    ELSE ApplyOperator(op, left.val, right.val)

Number(c) == Value(Whole(DigitValue(c)))

\* (x op1 y) op2 z and x op1 (y op2 z)
LeftFirst(x, op1, y, op2, z) == Operate(op2, Operate(op1, Number(x), Number(y)), Number(z))
RightFirst(x, op1, y, op2, z) == Operate(op1, Number(x), Operate(op2, Number(y), Number(z)))

\* x op1 y op2 z: the operator of the higher class first, the left one
\* first when the classes are equal.
ByPrecedence(x, op1, y, op2, z) ==
    IF PrecedenceClass(op1) >= PrecedenceClass(op2) THEN LeftFirst(x, op1, y, op2, z)
    ELSE RightFirst(x, op1, y, op2, z)

\* The line is x op1 y op2 z for digits x, y, z and binary operators op1,
\* op2, and the same for the lines with a pair in parentheses.
IsPrecedenceLine(line) ==
    /\ Len(line) = 9
    /\ {line[1], line[5], line[9]} \subseteq Digits /\ {line[3], line[7]} \subseteq BinaryOperators
    /\ line = PrecedenceLine(DigitValue(line[1]), line[3], DigitValue(line[5]), line[7], DigitValue(line[9]))
IsLeftGrouped(line) ==
    /\ Len(line) = 11
    /\ {line[2], line[6], line[11]} \subseteq Digits /\ {line[4], line[9]} \subseteq BinaryOperators
    /\ line = LeftGrouped(DigitValue(line[2]), line[4], DigitValue(line[6]), line[9], DigitValue(line[11]))
IsRightGrouped(line) ==
    /\ Len(line) = 11
    /\ {line[1], line[6], line[10]} \subseteq Digits /\ {line[3], line[8]} \subseteq BinaryOperators
    /\ line = RightGrouped(DigitValue(line[1]), line[3], DigitValue(line[6]), line[8], DigitValue(line[10]))

\* C9: 2 + 3 * 4 evaluates to 14, (2+3)*4 to 20 and 2^3^2 to 64; an
\* expression x op1 y op2 z compiles and evaluates op1 first unless op2 is
\* of a higher precedence class, ^ above * / \ % above + - above < >, so
\* that operators of one class, ^ included, associate to the left; a pair
\* in parentheses is evaluated first.
C9_PrecedenceAndAssociativity ==
    /\ (outcome.op = "createEquation" /\ (IsPrecedenceLine(outcome.line) \/ IsLeftGrouped(outcome.line)
                                            \/ IsRightGrouped(outcome.line) \/ outcome.line \in PrecedenceExamples))
            => outcome.err = ""
    /\ outcome.op = "evaluate" =>
        /\ outcome.line = <<"2"," ","+"," ","3"," ","*"," ","4">> => Result = Value(Whole(14))
        /\ outcome.line = <<"(","2","+","3",")","*","4">> => Result = Value(Whole(20))
        /\ outcome.line = <<"2","^","3","^","2">> => Result = Value(Whole(64))
        /\ IsPrecedenceLine(outcome.line) =>
                Result = ByPrecedence(outcome.line[1], outcome.line[3], outcome.line[5], outcome.line[7], outcome.line[9])
        /\ IsLeftGrouped(outcome.line) =>
                Result = LeftFirst(outcome.line[2], outcome.line[4], outcome.line[6], outcome.line[9], outcome.line[11])
        /\ IsRightGrouped(outcome.line) =>
                Result = RightFirst(outcome.line[1], outcome.line[3], outcome.line[6], outcome.line[8], outcome.line[10])

\* 2^3^2 was evaluated to 64.
C9_ExponentsAssociateLeft ==
    outcome.op = "evaluate" /\ outcome.line = <<"2","^","3","^","2">> /\ Result = Value(Whole(64))

\* C10: a factor that follows a factor is multiplied by it, for every pair
\* of a literal, a variable, a call and a group in parentheses: the line
\* compiles and evaluates to the product of the two, as do 2 3, 2(3),
\* (2)(3), (2)3 and (2)x with x = 3.
C10_FactorsAreMultiplied ==
    /\ (outcome.op = "createEquation" /\ outcome.line \in FactorLines) => outcome.err = ""
    /\ outcome.op = "evaluate" =>
        /\ \A i \in 1..Len(FirstFactors), j \in 1..Len(SecondFactors) :
                outcome.line = FactorPair(i, j) => Result = Value(Whole(FirstFactors[i][2] * SecondFactors[j][2]))
        /\ outcome.line \in FactorExamples => Result = Value(Whole(6))

(***************************************************************************)
(* Literals that only whitespace separates                                 *)
(***************************************************************************)
\* C11: compiling an expression in which a numeric literal follows a numeric
\* literal after whitespace only raises ConsecutiveFactorError, and the
\* caller gets no equation.
C11_JuxtaposedLiteralsRaise ==
    (outcome.op = "createEquation" /\ outcome.line \in JuxtaposedLines) =>
        outcome.err = "ConsecutiveFactorError" /\ held = Nothing

\* createEquation of the expression of the tests raised the error.
C11_TestExpressionRaised ==
    /\ outcome.op = "createEquation"
    /\ outcome.line = JuxtaposedExample
    /\ outcome.err = "ConsecutiveFactorError"
    /\ held = Nothing

(***************************************************************************)
(* Negation and subtraction                                                *)
(***************************************************************************)
\* The negations of a compiled expression: each is the literal -1, which
\* the lexer never yields. Its subtractions are the "-" tokens left.
Negations(tokens) == Cardinality({k \in 1..Len(tokens) : tokens[k] = NumTok(Whole(-1))})
Subtractions(tokens) == Cardinality({k \in 1..Len(tokens) : tokens[k] = StrTok(<<"-">>)})

\* The equation createEquation returned has n negations and m subtractions.
Compiles(n, m) ==
    /\ outcome.err = ""
    /\ held # Nothing
    /\ Negations(heap[held.self].equation) = n
    /\ Subtractions(heap[held.self].equation) = m

\* The operators whose precedence is not above that of a multiplication.
Loose == {"*", "+", "-", "<", ">"}

C13_DivisionByZero ==
    outcome.op = "evaluate" =>
        /\ \A x \in 0..MaxDigit, z \in 1..Len(ZeroOperands), op \in DivisionOperators :
                outcome.line = DivisionByZeroLine(x, op, z) =>
                    outcome.err = IF op = "%" THEN "ZeroDivisionError" ELSE "DivisionByZeroError"
        /\ \A x \in 0..MaxDigit, y \in 0..MaxDigit, op \in DivisionOperators :
                outcome.line = DivisionLine(x, op, y) =>
                    outcome.err = IF y # 0 THEN "" ELSE IF op = "%" THEN "ZeroDivisionError" ELSE "DivisionByZeroError"
        /\ outcome.line \in {<<"1","0","/","0">>, <<"1","0","\\","0">>, <<"6","6"," ","/"," ","0">>} => outcome.err = "DivisionByZeroError"
        /\ outcome.line = <<"1","0","/","5">> => Result = Value(Whole(2))
        /\ outcome.line = <<"1","0","/","3">> => Result = Value(Rat(10, 3))
        /\ outcome.line = <<"1","0","\\","3">> => Result = Value(Whole(3))

\* The remainder of 2 by the call s(2), which returns 0, was evaluated and
\* raised ZeroDivisionError.
C13_RemainderByZeroRaised ==
    /\ outcome.op = "evaluate"
    /\ outcome.line = DivisionByZeroLine(2, "%", 4)
    /\ outcome.err = "ZeroDivisionError"

(***************************************************************************)
(* The namespaces of a session                                             *)
(***************************************************************************)
\* The entries of the variable namespace and of the function namespace of
\* the session.
LocalVariables == session._variables.items
LocalFunctions == session._functions.items

\* C19: the body of a function is compiled against a copy of the variable
\* namespace in which its parameters are set. In the session of a = 1,
\* b = 2 and g(a) = a b the a of the body is the parameter, g(3) is 6 and
\* g(-3) is -6, and g(1, 2, 3) with g(p, q, r) = p+q+r is 6; compiling a
\* function, in the constructor or in createFunction, leaves no parameter
\* in the variable namespace of the session: every entry of it is a
\* Variable under its own name, and a is the variable whose value is 1.
C19_ParametersShadowInACopy ==
    /\ ~NoSession =>
        /\ \A i \in 1..Len(LocalVariables) :
            /\ heap[LocalVariables[i].v].cls = "Variable"
            /\ heap[LocalVariables[i].v].name = LocalVariables[i].k
        /\ DictHas(session._variables, <<"a">>)
        /\ heap[DictSubscript(session._variables, <<"a">>).val].tokens = <<NumTok(Whole(1))>>
    /\ outcome.op = "evaluate" =>
        /\ outcome.line = <<"g","(","3",")">> => Result = Value(Whole(6))
        /\ outcome.line = <<"g","(","-","3",")">> => Result = Value(Whole(-6))
        /\ outcome.line = <<"g","(","1",","," ","2",","," ","3",")">> => Result = Value(Whole(6))
        /\ outcome.line = <<"a","b","s","(","-","3",")">> /\ DictHas(session._functions, <<1, <<"a","b","s">>>>) => Result = Value(Whole(-1))

\* g(-3) was evaluated to -6 in a session that has the variable a.
C19_CallWithShadowedName ==
    /\ outcome.op = "evaluate"
    /\ outcome.line = <<"g","(","-","3",")">>
    /\ Result = Value(Whole(-6))
    /\ DictHas(session._variables, <<"a">>)

(***************************************************************************)
(* The cache of a variable                                                 *)
(***************************************************************************)
\* C14: while a variable holds a computed value, zero included, evaluating
\* it returns that value and does not evaluate its expression again: in
\* the session of z = n; z+z, for a digit n, Session.evaluate computes z
\* once, z+z evaluates to 2n from the cached value, and the caches are
\* empty when the call returns.
C14_CachedValueIsReturned ==
    \A n \in 0..MaxDigit :
        (input = CachedBatch(n) /\ declared = <<>> /\ outcome.op = "Session.evaluate") =>
            /\ outcome.err = ""
            /\ outcome.values = << <<<<"z">>, Whole(n)>> >>
            /\ outcome.results = << <<<<"z"," ","+"," ","z">>, Whole(2 * n)>> >>
            /\ \A i \in 1..Len(LocalVariables) : heap[LocalVariables[i].v].computedNone

(***************************************************************************)
(* Session.evaluate                                                        *)
(***************************************************************************)
\* The texts of the equations in the queue of the session of NamesBatch:
\* those of the batch, rendered, and the lines that addEquation added.
QueuedTexts == <<<<"g","(","3",")">>, <<"v"," ","+"," ","b">>>> \o SelectSeq(declared, LAMBDA line : line \in NameLines)

\* The variables that the session of NamesBatch can hold, with their values.
NamedValues == {<<<<"a">>, Whole(1)>>, <<<<"b">>, Whole(2)>>, <<<<"e">>, Whole(3)>>, <<<<"g">>, Whole(4)>>}

\* The values of the calls of g among the queued equations.
CallValues ==
    {<<<<"g","(","3",")">>, Whole(6)>>, <<<<"g","(","-","3",")">>, Whole(-6)>>, <<<<"g","(","1",","," ","3",")">>, Whole(4)>>, <<<<"g","(","1",","," ","2",","," ","3",")">>, Whole(6)>>, <<<<"g"," ","+"," ","a">>, Whole(5)>>}

\* C15: when Session.evaluate returns, it returns one (name, value) pair
\* for every variable of the session, in the order of the names, and one
\* (text, value) pair for every queued equation, in the order of the queue,
\* the text being the rendered expression (v + b for the line v+b); and
\* the cache of every variable is empty.
C15_BatchEvaluation ==
    (outcome.op = "Session.evaluate" /\ outcome.err = "") =>
        /\ Len(outcome.values) = Len(LocalVariables)
        /\ \A i \in 1..Len(LocalVariables) : \E j \in 1..Len(outcome.values) : outcome.values[j][1] = LocalVariables[i].k
        /\ \A j \in 1..(Len(outcome.values) - 1) : StringLess(outcome.values[j][1], outcome.values[j + 1][1])
        /\ \A j \in 1..Len(outcome.values) : outcome.values[j] \in NamedValues
        /\ [i \in 1..Len(outcome.results) |-> outcome.results[i][1]] = QueuedTexts
        /\ \A i \in 1..Len(outcome.results) :
            \A call \in CallValues : outcome.results[i][1] = call[1] => outcome.results[i] = call
        /\ \A i \in 1..Len(LocalVariables) : heap[LocalVariables[i].v].computedNone

\* Session.evaluate returned the pairs of a, b and g and of the two
\* equations of the batch, after g = 4 was set.
C15_ThreeVariablesReturned ==
    /\ outcome.op = "Session.evaluate"
    /\ outcome.err = ""
    /\ outcome.values = << <<<<"a">>, Whole(1)>>, <<<<"b">>, Whole(2)>>, <<<<"g">>, Whole(4)>> >>
    /\ outcome.results = << <<<<"g","(","3",")">>, Whole(6)>>, <<<<"v"," ","+"," ","b">>, Whole(9)>> >>

(***************************************************************************)
(* Functions of one name                                                   *)
(***************************************************************************)
\* The references to a Function object among the compiled tokens of the
\* object self.
CompiledCalls(self) ==
    {n \in 1..Len(heap[self].equation) :
        /\ heap[self].equation[n].t = "ref"
        /\ heap[self].equation[n].k \in {_FUNCTION_CUSTOM, _FUNCTION_EXTERNAL}}

\* The key of g with arity parameters.
KeyOfG(arity) == <<arity, <<"g">>>>

\* C18: the functions of a session are keyed by (arity, name). The
\* constructor keeps g of one parameter and g of two parameters, each under
\* the number of its parameters; every function of the session is held
\* under the number of its parameters and its name, whatever was set and
\* cleared; a call compiles when the session has a function of the name
\* with as many parameters as the call has arguments and raises
\* FunctionError when it has none; and every compiled call of a Function,
\* which is what evaluation runs, has as many arguments as the Function has
\* parameters. With the variable g = 4 set, g + a is 5 while g(3) is 6,
\* g(1, 3) is 4 and g(1, 2, 3) is 6.
C18_KeyedByArityAndName ==
    /\ (outcome.op = "Session" /\ session._variables.missing # <<>>) =>
        /\ outcome.err = ""
        /\ [i \in 1..Len(LocalFunctions) |-> LocalFunctions[i].k] \in {<<KeyOfG(1), KeyOfG(2)>>, <<KeyOfG(2), KeyOfG(1)>>}
    /\ ~NoSession =>
        /\ \A i \in 1..Len(LocalFunctions) :
            /\ heap[LocalFunctions[i].v].cls = "Function"
            /\ LocalFunctions[i].k = <<Len(heap[LocalFunctions[i].v].parameters), heap[LocalFunctions[i].v].name>>
        /\ \A i, j \in 1..Len(LocalFunctions) : LocalFunctions[i].k = LocalFunctions[j].k => i = j
    /\ \A self \in 1..Len(heap) : \A n \in CompiledCalls(self) :
            Len(heap[self].equation[n].a) = Len(heap[heap[self].equation[n].e].parameters)
    /\ outcome.op = "createEquation" =>
        \A arity \in 1..3 :
            outcome.line = <<<<"g","(","3",")">>, <<"g","(","1",","," ","3",")">>, <<"g","(","1",","," ","2",","," ","3",")">>>>[arity] =>
                outcome.err = IF DictHas(session._functions, KeyOfG(arity)) THEN "" ELSE "FunctionError"
    /\ outcome.op = "evaluate" =>
        /\ outcome.line = <<"g"," ","+"," ","a">> => Result = Value(Whole(5))
        /\ outcome.line = <<"g","(","3",")">> => Result = Value(Whole(6))
        /\ outcome.line = <<"g","(","1",","," ","3",")">> => Result = Value(Whole(4))
        /\ outcome.line = <<"g","(","1",","," ","2",","," ","3",")">> => Result = Value(Whole(6))

\* g(1, 2, 3) was evaluated to 6 in a session that holds g of one, of two
\* and of three parameters.
C18_ThreeFunctionsOfOneName ==
    /\ outcome.op = "evaluate"
    /\ outcome.line = <<"g","(","1",","," ","2",","," ","3",")">>
    /\ Result = Value(Whole(6))
    /\ \A arity \in 1..3 : DictHas(session._functions, KeyOfG(arity))

(***************************************************************************)
(* The order of name resolution                                            *)
(***************************************************************************)
\* What the name of a variable resolves to in the session: the value of the
\* variable of the session (NamedValues), else what the handler returns,
\* else the builtin, else nothing.
Resolved(name) ==
    IF DictHas(session._variables, name) THEN [none |-> FALSE, val |-> (CHOOSE pair \in NamedValues : pair[1] = name)[2]]
    ELSE IF ~ItemsGet(session._variables.missing, name).none THEN ItemsGet(session._variables.missing, name)
    ELSE ItemsGet(_VARIABLES, name)

\* The value of abs(-3): that of the function abs(n)=n+2 of the session,
\* else that of the handler's t(n)=n+1, else that of the builtin.
ResolvedAbs ==
    IF DictHas(session._functions, <<1, <<"a","b","s">>>>) THEN Whole(-1)
    ELSE IF ~ItemsGet(session._functions.missing, <<1, <<"a","b","s">>>>).none THEN Whole(-2)
    ELSE Whole(3)

\* C17: a name is looked up in the namespace of the session, then through
\* the lookup handler, then among the builtins. e + v compiles when the
\* handler knows v and evaluates to the sum of what e and v resolve to (e
\* is the variable e = 3 when it was set, else the handler's 9, else the
\* builtin); g + a takes the variable a = 1 and not the handler's value of
\* a; abs(-3) is -1 with abs(n)=n+2 set, else -2 with the handler's
\* function, else the builtin's 3; t(1) is the handler's 2, and raises
\* FunctionError when compiled without the handler; w, which nothing
\* knows, raises VariableError when compiled; and the constructor raises
\* VariableError for the line v+b when there is no handler.
C17_LocalThenHandlerThenBuiltin ==
    /\ outcome.op = "Session" =>
        outcome.err = IF session._variables.missing = <<>> THEN "VariableError" ELSE ""
    /\ outcome.op = "createEquation" =>
        /\ outcome.line = <<"w">> => outcome.err = "VariableError"
        /\ outcome.line = <<"e"," ","+"," ","v">> => outcome.err = ""
        /\ outcome.line = <<"a","b","s","(","-","3",")">> => outcome.err = ""
        /\ outcome.line = <<"t","(","1",")">> =>
            outcome.err = IF ItemsGet(session._functions.missing, <<1, <<"t">>>>).none THEN "FunctionError" ELSE ""
        /\ outcome.line = <<"g"," ","+"," ","a">> => outcome.err = IF DictHas(session._variables, <<"g">>) THEN "" ELSE "VariableError"
    /\ outcome.op = "evaluate" =>
        /\ outcome.line = <<"e"," ","+"," ","v">> => Result = Value(Add(Resolved(<<"e">>).val, Resolved(<<"v">>).val))
        /\ outcome.line = <<"g"," ","+"," ","a">> => Result = Value(Whole(5))
        /\ outcome.line = <<"a","b","s","(","-","3",")">> => Result = Value(ResolvedAbs)
        /\ outcome.line = <<"t","(","1",")">> => Result = Value(Whole(2))

\* e + v was evaluated to 10 in a session whose variable e = 3 shadows the
\* handler's value 9 of e and the builtin.
C17_VariableShadowsHandlerAndBuiltin ==
    /\ outcome.op = "evaluate"
    /\ outcome.line = <<"e"," ","+"," ","v">>
    /\ Result = Value(Whole(10))
    /\ DictHas(session._variables, <<"e">>)
    /\ ~ItemsGet(session._variables.missing, <<"e">>).none
    /\ ~ItemsGet(_VARIABLES, <<"e">>).none

(***************************************************************************)
(* A handler whose state changes                                           *)
(***************************************************************************)
\* C16: a batch evaluation reflects the state behind the variable lookup
\* handler at the time of the call: the queued equation v + b, with b = 2,
\* evaluates to 2 more than what the handler returns for v when
\* Session.evaluate is called, also after that value has changed since an
\* earlier call.
C16_LaterEvaluationSeesHandler ==
    (outcome.op = "Session.evaluate" /\ outcome.err = "") =>
        \A i \in 1..Len(outcome.results) :
            outcome.results[i][1] = <<"v"," ","+"," ","b">> =>
                outcome.results[i][2] = Add(ItemsGet(session._variables.missing, <<"v">>).val, Whole(2))

(***************************************************************************)
(* The create calls                                                        *)
(***************************************************************************)
\* The methods that make an entity, and those that change the session.
CreateMethods == {"createVariable", "createFunction", "createEquation"}
ChangeMethods == {"setVariable", "setFunction", "addEquation", "clearFunction"}

\* C20: a call of createVariable, createFunction or createEquation leaves
\* the session as it was, its variables, its functions and its queue, also
\* when it raises and when a name of the line is not in the namespace of
\* the session (e + v, t(1), w); the entity that it returns is compiled;
\* and the variables, the functions and the queue of the session change
\* only in a call of setVariable, setFunction, addEquation or clearFunction.
C20_CreateLeavesTheSession ==
    [][/\ outcome'.op \in CreateMethods =>
            /\ session' = session
            /\ held' # Nothing => (outcome'.err = "" /\ ~heap'[held'.self].equationNone)
       /\ (session'._variables.items # session._variables.items
            \/ session'._functions.items # session._functions.items
            \/ session'._equations # session._equations) => outcome'.op \in ChangeMethods]_vars

\* createEquation returned the compiled equation e + v in a session that
\* has no variable v and no variable e: both lookups missed the namespace
\* of the session.
C20_CreatedFromMissingNames ==
    /\ outcome.op = "createEquation"
    /\ outcome.line = <<"e"," ","+"," ","v">>
    /\ held # Nothing
    /\ ~heap[held.self].equationNone
    /\ ~DictHas(session._variables, <<"v">>)
    /\ ~DictHas(session._variables, <<"e">>)

(***************************************************************************)
(* Misuse of the API                                                       *)
(***************************************************************************)
\* The methods that register an entity.
RegisterMethods == {"setVariable", "setFunction", "addEquation"}

\* The lines that a create method takes, and the class of the entities
\* that a set or add method takes.
LinesOf(op) ==
    CASE op = "createVariable" -> ApiVariables
      [] op = "createFunction" -> ApiFunctions
      [] op = "createEquation" -> ApiEquations
ClassOf(op) ==
    CASE op = "setVariable" -> "Variable"
      [] op = "setFunction" -> "Function"
      [] op = "addEquation" -> "Equation"

\* The call op was passed the entity that the caller holds, and the entity
\* is of the class that op takes.
PassedItsKind(op, line) == held # Nothing /\ line = held.line /\ heap[held.self].cls = ClassOf(op)

\* C21: createVariable, createFunction and createEquation raise
\* InstantiationError for None, for the empty text, for a text of
\* whitespace and for a line of another kind than the method makes, and
\* return nothing; setVariable, setFunction and addEquation raise it for
\* None, for a text and for an entity of another class than the method
\* takes; and each of these calls leaves the variables, the functions and
\* the queue of the session as they were.
C21_MisuseRaisesAndChangesNothing ==
    [][/\ (outcome'.op \in CreateMethods /\ outcome'.line \notin LinesOf(outcome'.op)) =>
            /\ outcome'.err = "InstantiationError"
            /\ held' = Nothing
            /\ session' = session
       /\ (outcome'.op \in RegisterMethods /\ ~PassedItsKind(outcome'.op, outcome'.line)) =>
            /\ outcome'.err = "InstantiationError"
            /\ held' = held
            /\ session' = session]_vars

\* setVariable raised InstantiationError for a Function, in a session in
\* which an entity was registered before.
C21_FunctionPassedToSetVariable ==
    /\ outcome.op = "setVariable"
    /\ outcome.err = "InstantiationError"
    /\ held # Nothing
    /\ outcome.line = held.line
    /\ heap[held.self].cls = "Function"
    /\ declared # <<>>

(***************************************************************************)
(* clearVariable                                                           *)
(***************************************************************************)
\* C22: clearVariable(name) raises nothing, and when it returns the session
\* has no variable of that name.
C22_ClearVariableRemoves ==
    outcome.op = "clearVariable" =>
        /\ outcome.err = ""
        /\ ~DictHas(session._variables, outcome.line)

(***************************************************************************)
(* Empty groups                                                            *)
(***************************************************************************)
\* C23: an expression with an empty group compiles, and evaluating it
\* raises NullSubexpressionError: () alone, in a group and as the argument
\* of a call, and () as an operand, as in 5 + ().
C23_EmptyGroupRaisesNullSubexpression ==
    outcome.line \in (EmptyGroups \cup EmptyOperands) =>
        /\ outcome.op = "createEquation" => outcome.err = ""
        /\ outcome.op = "evaluate" => outcome.err = "NullSubexpressionError"

(***************************************************************************)
(* The alternation of factors and operators                                *)
(***************************************************************************)
\* The resolved stream of the line of outcome: what the loop of
\* _validateExpression builds from the tokens of the line for
\* _validateSyntax to check.
ResolvedLine ==
    ValidateExpressionLoop(_parseLine(outcome.line).tokens,
        [do_negation |-> TRUE, last_variable |-> FALSE, last_parenthesis |-> FALSE, last_factor |-> FALSE,
         expression |-> <<>>, heap |-> heap],
        session._functions, session._variables)

RECURSIVE ClosingAt(_, _, _)
\* The position of the ")" that closes the group opened before position
\* i, 0 when there is none.
ClosingAt(tokens, i, depth) ==
    IF i > Len(tokens) THEN 0
    ELSE IF Is(tokens[i], ")") THEN (IF depth = 1 THEN i ELSE ClosingAt(tokens, i + 1, depth - 1))
    ELSE ClosingAt(tokens, i + 1, IF Is(tokens[i], "(") THEN depth + 1 ELSE depth)

RECURSIVE Alternates(_, _, _, _)
\* From position i on, the stream is a factor, or factors with one operator
\* between each two; a factor is a number, a reference or a group in
\* parentheses whose content alternates in the same way. empty says
\* whether a group without content is a factor too.
Alternates(tokens, i, expecting_factor, empty) ==
    IF i > Len(tokens) THEN ~expecting_factor
    ELSE IF ~expecting_factor THEN IsIn(tokens[i], _PURE_OPERATORS) /\ Alternates(tokens, i + 1, TRUE, empty)
    ELSE IF tokens[i].t # "str" THEN Alternates(tokens, i + 1, FALSE, empty)
    ELSE /\ Is(tokens[i], "(")
         /\ ClosingAt(tokens, i + 1, 1) > 0
         /\ IF ClosingAt(tokens, i + 1, 1) = i + 1 THEN empty
            ELSE Alternates(SubSeq(tokens, i + 1, ClosingAt(tokens, i + 1, 1) - 1), 1, TRUE, empty)
         /\ Alternates(tokens, ClosingAt(tokens, i + 1, 1) + 1, FALSE, empty)

\* Two adjacent operators raise ConsecutiveOperatorError, a trailing
\* operator IncompleteExpressionError, an unclosed "(" 
\* UnbalancedParenthesesError, and an unmatched ")" or a "," outside an
\* argument list UnexpectedCharacterError; a leading operator is rejected.
RaisesItsError ==
    /\ outcome.line \in ConsecutiveOperatorLines => outcome.err = "ConsecutiveOperatorError"
    /\ outcome.line \in TrailingOperatorLines => outcome.err = "IncompleteExpressionError"
    /\ outcome.line \in UnclosedLines => outcome.err = "UnbalancedParenthesesError"
    /\ outcome.line \in UnmatchedLines => outcome.err = "UnexpectedCharacterError"
    /\ outcome.line \in LeadingOperatorLines => outcome.err # ""

LastOf(ops) ==
    LET at == {i \in 1..Len(declared) : declared[i] \in ops}
    IN  IF at = {} THEN <<>> ELSE declared[CHOOSE i \in at : \A j \in at : j <= i]

\* The lines of the calls that the session accepted.
Accepted == {declared[i] : i \in 1..Len(declared)}

\* Whether the line a was accepted before the line b.
Before(a, b) == \E i, j \in 1..Len(declared) : i < j /\ declared[i] = a /\ declared[j] = b

\* What the session of ApiBatch holds after the calls in declared: the
\* value of a, of f(2), whose body keeps the a of the batch, and of c, which
\* keeps the a it was created with.
ValueOfA == IF <<"a","=","2">> \in Accepted THEN 2 ELSE 1
ValueOfC == IF Before(<<"a","=","2">>, <<"c","=","a","+","1">>) THEN 3 ELSE 2
FunctionLines == {<<"f","(","x",")","=","x","+","2">>, Cleared(<<<<"f">>, 1>>)}

\* What an invocation of the callable of the line gives in that session.
InvocationGives(line, err, val) ==
    IF line = <<" ","a"," ","+"," ","1"," ">> THEN err = "" /\ val = Whole(ValueOfA + 1)
    ELSE IF line = <<"f","(","2",")">> THEN
        IF LastOf(FunctionLines) = <<>> THEN err = "" /\ val = Whole(3)
        ELSE IF LastOf(FunctionLines) = <<"f","(","x",")","=","x","+","2">> THEN err = "" /\ val = Whole(4)
        ELSE err = "FunctionError"
    ELSE IF <<"c","=","a","+","1">> \in Accepted THEN err = "" /\ val = Whole(ValueOfC)
    ELSE err = "VariableError"

\* C25: every invocation of the callable of extract_equation gives what the
\* equation is worth in the session as it is at that invocation, whatever
\* was registered, replaced or removed since the extraction or the previous
\* invocation; extract_equation of a declaration raises CompilationError
\* and gives no callable.
C25_InvocationCompilesAgain ==
    /\ outcome.op = "invoke" => InvocationGives(outcome.line, outcome.err, outcome.val)
    /\ outcome.op = "extract_equation" /\ outcome.line \notin ExtractedEquations =>
        outcome.err = "CompilationError" /\ extracted = NoCallable

\* The callable of "f(2)" was invoked twice, and between the invocations the
\* function was replaced: the second invocation gives 4.
C25_ReplacedFunctionSeen ==
    /\ outcome.op = "invoke"
    /\ outcome.line = <<"f","(","2",")">>
    /\ extracted.invoked = 2
    /\ declared = <<<<"f","(","x",")","=","x","+","2">>>>
    /\ outcome.val = Whole(4)

(***************************************************************************)
(* C26: the order in which operands are evaluated                          *)
(***************************************************************************)
\* What the right operand of a line of FailingOperands raises when it is
\* evaluated alone.
RightOperandRaises(line) ==
    IF line = <<"r","(","0",")"," ","+"," ","g","(","(",")",")">> THEN "NullSubexpressionError" ELSE "DivisionByZeroError"

\* C26 as stated: operands are pushed unevaluated and forced when the
\* operator pops them, the right one first, so that of two operands that
\* both raise it is the error of the right one that the sum reports.
C26_RightOperandForcedFirst ==
    outcome.op = "evaluate" /\ outcome.line \in FailingOperands =>
        outcome.err = RightOperandRaises(outcome.line)

(***************************************************************************)
(* C27: a compiled form never changes                                      *)
(***************************************************************************)
\* The Equation, Variable and Function objects that have a compiled form.
Compiled ==
    {i \in 1..Len(heap) : heap[i].cls \in {"Equation", "Variable", "Function"} /\ ~heap[i].equationNone}

\* C27: the compiled form of an equation, variable or function, with the
\* variable and function objects it refers to, is the same after every call:
\* after a second compile against the session's namespaces or against other
\* ones, and after setVariable, setFunction or clearFunction replaces or
\* removes a name it resolved. A second compile does not raise.
C27_CompiledFormKept ==
    [][/\ \A i \in Compiled : i \in Compiled' /\ heap'[i].equation = heap[i].equation
       /\ outcome'.op = "compile" => outcome'.err = ""]_vars

\* The function f, whose body resolved the a of the batch, was compiled
\* again after setVariable replaced a: its body refers to the a of the batch,
\* not to the a of the session.
C27_CompiledAgainAfterReplacement ==
    /\ outcome.op = "compile"
    /\ outcome.line = <<"f">>
    /\ declared = <<<<"a","=","2">>>>
    /\ \E i \in Compiled : \E j \in 1..Len(heap[i].equation) :
        /\ heap[i].name = <<"f">>
        /\ heap[i].equation[j].e # 0
        /\ heap[heap[i].equation[j].e].name = <<"a">>
        /\ heap[i].equation[j].e # DictSubscript(session._variables, <<"a">>).val

(***************************************************************************)
(* C28: the evaluator's check of its stack                                 *)
(***************************************************************************)
\* C28: the evaluation of an equation that createEquation returned, that
\* is, of a token sequence that the validator accepted, never raises the
\* IncompleteExpressionError of the evaluator: its stack does not end with
\* more than one value.
C28_EvaluatorNeverIncomplete ==
    outcome.op = "evaluate" => outcome.err # "IncompleteExpressionError"

\* An expression of three operands was evaluated and one value was left.
C28_ThreeOperandsOneValue ==
    /\ outcome.op = "evaluate"
    /\ outcome.line = <<"2"," ","+"," ","3"," ","*"," ","4">>
    /\ outcome.err = ""
    /\ outcome.val = Whole(14)

(***************************************************************************)
(* C29: the caches after Session.evaluate raised                           *)
(***************************************************************************)
\* The Variable objects that hold a computed value.
CachedVariables == {i \in 1..Len(heap) : heap[i].cls = "Variable" /\ ~heap[i].computedNone}

\* C29 as stated: when Session.evaluate raised, no variable is left with a
\* computed value.
C29_NoCacheAfterFailure ==
    outcome.op = "Session.evaluate" /\ outcome.err # "" => CachedVariables = {}

(***************************************************************************)
(* C30: evaluation terminates                                              *)
(***************************************************************************)
\* The visited chains of one or two objects of the heap, without
\* repetition, that contain the object self.
ChainsWith(self) ==
    {<<self>>} \cup {<<self, other>> : other \in (1..Len(heap)) \ {self}}
    \cup {<<other, self>> : other \in (1..Len(heap)) \ {self}}

\* C30: no evaluation runs into the recursion limit of the interpreter: it
\* ends with a value or with an error of the module. An entity that is in
\* the visited chain is never visited again, wherever in the chain it is:
\* its evaluation raises (RecursionError when it is compiled) and appends
\* nothing, so a chain holds no entity twice and is no longer than the heap.
C30_EvaluationTerminates ==
    /\ outcome.err # "RuntimeError"
    /\ \A self \in 1..Len(heap) : \A stack \in ChainsWith(self) :
        /\ Equation_evaluate(heap, self, stack).err = (IF heap[self].equationNone THEN "CompilationError" ELSE "RecursionError")
        /\ Equation_evaluate(heap, self, stack).stack = stack

\* Session.evaluate of the two variables that reference each other ended, in
\* RecursionError.
C30_VariableCycleEnded ==
    /\ input = RecursiveVariables
    /\ outcome.op = "Session.evaluate"
    /\ outcome.err = "RecursionError"
    /\ Len(heap) < RecursionLimit

====
